---- MODULE Spec2Model ----
(***************************************************************************)
(* Peer-mesh coordination layer of LocalWatch: MeshNetwork (registry,      *)
(* leader election, relay, reconnection grace timers) and MediaController  *)
(* (file readiness, majority vote).                                        *)
(*                                                                         *)
(* Peer ids are the opaque strings peer_xxx of the program; they are       *)
(* modelled as the integers 1, 2, 3, Null standing for null/undefined.     *)
(* A connection object (SimplePeer.Instance) between two peers is          *)
(* identified by the generation number of the link of that pair.           *)
(***************************************************************************)
EXTENDS Integers, Sequences, FiniteSets, TLC

\* ---------------------------------------------------------------- bounds
MaxPrio == 2
MaxCloses == 2
MaxSends == 6
ReadyLoads == 2
ReadyConfirms == 2
MaxLoads == 2
MaxConfirms == 1
MaxVotes == 2
NumVoters == 6
TrioConfirms == 3
MaxDrift == 2100
MaxLatency == 40
MaxSyncs == 2
MaxBufferOps == 3
LeaveCloses == 1

Null == 0
PeerIds == {1, 2, 3}
Priorities == 1..MaxPrio

VARIABLES
  room,           \* the peers that run an instance in this room
  localPriority,  \* MeshNetwork.localPriority of every peer
  peers,          \* MeshNetwork.peers: Map in insertion order, as a sequence
  leaderId,       \* MeshNetwork.leaderId
  timers,         \* armed reconnection timeouts of every peer, oldest first
  linkGen,        \* generation of the newest connection object of a pair
  linkOpen,       \* whether that connection is open (not destroyed)
  closeEv,        \* 'close' events emitted and not yet handled
  net,            \* envelopes in flight, per directed link, in order
  closes,         \* number of link closes so far
  sends,          \* number of relay sends so far
  lastExpiry,     \* observer: what the last grace timer that fired did
  relayLog,       \* observer: relay sends [by, to, senderId, via]
  relayCount,     \* observer: number of times a peer relayed the broadcast
  pingIntervals,  \* per peer, the peers it has a running ping interval for
  garbled,        \* observer, per directed link: whether the receiver has
                  \* dropped unparsable data and handled an envelope since
  twin,           \* two instances of one peer, for order independence
  twinPrio,       \* priorities of the peers the twin registers
  mc,             \* MediaController of every peer: currentMedia,
                  \* pendingFileUploads, activeVoteRequest
  voteTimers,     \* armed vote timeouts of every peer, oldest first
  nextRequestId,  \* number of requestIds generated so far, plus one
  budget,         \* user actions still allowed: loads, confirms, votes
  castVotes,      \* observer: the votes cast so far, [requestId, voter, vote]
  finalized,      \* observer: what the last finalizeVote of a peer did
  lastConfirm,    \* observer: what the last readiness confirmation did
  mediaReady,     \* observer: media-ready events fired at a peer since its
                  \* current media was set
  emitted,        \* observer: the events the last MediaController call fired
  sm,             \* SyncManager of every peer, with its video element
  lastSync,       \* observer: what the last applySync did
  originated,     \* observer: the sync samples a peer originated, whether it
                  \* originated one while it did not hold itself leader, and
                  \* whether a send of it returned early for that reason
  bufferLog       \* observer: what the last handlePeerBuffering did, per peer
                  \* how its current buffering episode began, and the number
                  \* of local player events so far

meshVars == <<room, localPriority, peers, leaderId, timers, linkGen, linkOpen,
              closeEv, net, closes, sends, lastExpiry, relayLog, relayCount, pingIntervals,
              garbled>>
twinVars == <<twin, twinPrio>>
mediaVars == <<mc, voteTimers, nextRequestId, budget, castVotes, finalized, lastConfirm,
               mediaReady, emitted>>
syncVars == <<sm, lastSync, originated, bufferLog>>
vars == <<meshVars, twinVars, mediaVars, syncVars>>

\* ------------------------------------------------------- MeshNetwork
Pair(a, b) == IF a < b THEN <<a, b>> ELSE <<b, a>>
Pairs == {<<a, b>> \in PeerIds \X PeerIds : a < b}

\* index of the registry entry of peerId, 0 when there is none (Map.has/get)
PeerIndex(ps, peerId) ==
  IF \E i \in 1..Len(ps) : ps[i].id = peerId
  THEN CHOOSE i \in 1..Len(ps) : ps[i].id = peerId
  ELSE 0

HasPeer(ps, peerId) == PeerIndex(ps, peerId) # 0

\* Map.delete
DeletePeer(ps, peerId) == SelectSeq(ps, LAMBDA e : e.id # peerId)

IsConnectedEntry(e) == e.status = "connected"

\* getConnectedPeers, as the set of their ids
ConnectedIds(ps) == {ps[i].id : i \in {j \in 1..Len(ps) : IsConnectedEntry(ps[j])}}

\* Array.prototype.sort with (a, b) => b.priority - a.priority: a stable
\* sort, descending by priority; equal priorities keep their input order.
RECURSIVE InsertDesc(_, _)
InsertDesc(x, s) ==
  IF s = <<>> THEN <<x>>
  ELSE IF Head(s).priority >= x.priority
       THEN <<Head(s)>> \o InsertDesc(x, Tail(s))
       ELSE <<x>> \o s

RECURSIVE SortByPriorityDesc(_)
SortByPriorityDesc(s) ==
  IF s = <<>> THEN <<>>
  ELSE InsertDesc(s[Len(s)], SortByPriorityDesc(SubSeq(s, 1, Len(s) - 1)))

\* electLeader: the candidates (self first, then connected peers in map order)
Candidates(localId, prio, ps) ==
  LET conn == SelectSeq(ps, IsConnectedEntry)
  IN  <<[id |-> localId, priority |-> prio]>> \o
      [i \in 1..Len(conn) |-> [id |-> conn[i].id, priority |-> conn[i].priority]]

\* electLeader: newLeader = candidates[0].id after the sort
NewLeader(localId, prio, ps) == SortByPriorityDesc(Candidates(localId, prio, ps))[1].id

\* a connection object is destroyed once its link has closed or been replaced
LinkAlive(n, q, conn) == linkOpen[Pair(n, q)] /\ linkGen[Pair(n, q)] = conn

\* the peers a broadcast reaches: status connected and connection not destroyed
BroadcastTargets(n, ps) ==
  {ps[i].id : i \in {j \in 1..Len(ps) :
      IsConnectedEntry(ps[j]) /\ LinkAlive(n, ps[j].id, ps[j].connection)}}

\* relayMessage excluding the peer the envelope arrived from instead
RelayTargets_ExcludeLink(n, ps, excludeId, arrivedFrom) ==
  BroadcastTargets(n, ps) \ {arrivedFrom}

\* relayMessage: as broadcast, without the peer whose id is excludeId
RelayTargets(n, ps, excludeId, arrivedFrom) == BroadcastTargets(n, ps) \ {excludeId}

Envelope(type, senderId, leader, priority) ==
  [type |-> type, senderId |-> senderId, leaderId |-> leader, priority |-> priority]

NoOut == [q \in PeerIds |-> <<>>]

\* one envelope to every peer of targets
OutTo(targets, m) == [q \in PeerIds |-> IF q \in targets THEN <<m>> ELSE <<>>]

\* peer n hands the envelopes outs[q] to its link with q
Transmit(nt, n, outs) ==
  [l \in DOMAIN nt |-> IF l[1] = n THEN nt[l] \o outs[l[2]] ELSE nt[l]]

\* registerPeer, electLeader included: the new registry and leaderId, and
\* whether electLeader announces (leaderId !== newLeader)
RegisterPeer(localId, prio, ps, lid, conn, peerId, priority) ==
  IF HasPeer(ps, peerId)
  THEN [peers |-> [ps EXCEPT ![PeerIndex(ps, peerId)].connection = conn,
                             ![PeerIndex(ps, peerId)].status = "connected"],
        leaderId |-> lid, announce |-> FALSE, joined |-> FALSE]
  ELSE LET ps2 == Append(ps, [id |-> peerId, priority |-> priority,
                              status |-> "connected", connection |-> conn])
           nl == NewLeader(localId, prio, ps2)
       IN  [peers |-> ps2, leaderId |-> nl, announce |-> (lid # nl), joined |-> TRUE]

\* observer: a handshake for peerId arrived while these timers were armed
MarkHandshake(ts, peerId) ==
  [i \in 1..Len(ts) |-> IF ts[i].peerId = peerId
                        THEN [ts[i] EXCEPT !.handshake = TRUE] ELSE ts[i]]

\* observer: a peer-left event fired for peerId while these timers were armed
MarkLeft(ts, peerId) ==
  [i \in 1..Len(ts) |-> IF ts[i].peerId = peerId
                        THEN [ts[i] EXCEPT !.leftSince = @ + 1] ELSE ts[i]]

NoExpiry == [peerId |-> Null, handshake |-> FALSE, removed |-> FALSE,
             present |-> FALSE, leftSince |-> 0]

\* ----------------------------------------------------------- actions

\* the connection createRoom prepared for the first guest is still pending
\* at the room creator (peer 1): none of its links was ever established
FirstGuest(a) ==
  a = 1 /\ \A p \in Pairs : a \in {p[1], p[2]} => linkGen[p] = 0

\* A link of the pair is established between initiator a and joiner b.  The
\* joiner's 'connect' handler (joinRoom) sends user_info without leaderId.
\* An initiator connection made by generateSignalForNewGuest sends user_info
\* with its leaderId (and a peer_list, which handlePeerData drops); the one
\* createRoom made for the first guest has no 'connect' handler and sends
\* nothing.  The first link of the room is the one to the creator.
Connect(a, b) ==
  /\ a # b
  /\ {a, b} \subseteq room
  /\ ~linkOpen[Pair(a, b)]
  /\ (\E q \in PeerIds : FirstGuest(q)) => FirstGuest(a)
  /\ linkGen' = [linkGen EXCEPT ![Pair(a, b)] = @ + 1]
  /\ linkOpen' = [linkOpen EXCEPT ![Pair(a, b)] = TRUE]
  /\ net' = [net EXCEPT
       ![<<a, b>>] = IF FirstGuest(a) THEN <<>>
                     ELSE <<Envelope("user_info", a, leaderId[a], localPriority[a])>>,
       ![<<b, a>>] = <<Envelope("user_info", b, Null, localPriority[b])>>]
  /\ UNCHANGED <<room, localPriority, peers, leaderId, timers, closeEv, closes, sends,
                 lastExpiry, relayLog, relayCount, pingIntervals,
                 garbled>>

\* handlePeerData, user_info branch
HandleUserInfo(r, s, m) ==
  LET conn == linkGen[Pair(r, s)]
      reg == RegisterPeer(r, localPriority[r], peers[r], leaderId[r], conn,
                          m.senderId, m.priority)
      lid == IF m.leaderId # Null THEN m.leaderId ELSE reg.leaderId
      announce == IF reg.announce
                  THEN OutTo(BroadcastTargets(r, reg.peers),
                             Envelope("leader_election", r, reg.leaderId, 0))
                  ELSE NoOut
      response == Envelope("user_info", r, lid, localPriority[r])
  IN  /\ peers' = [peers EXCEPT ![r] = reg.peers]
      /\ leaderId' = [leaderId EXCEPT ![r] = lid]
      /\ timers' = [timers EXCEPT ![r] = MarkHandshake(@, m.senderId)]
      /\ net' = Transmit(Transmit([net EXCEPT ![<<s, r>>] = Tail(@)], r, announce),
                         r, OutTo({s}, response))
      /\ pingIntervals' = [pingIntervals EXCEPT ![r] =
                             IF reg.joined THEN @ \cup {m.senderId} ELSE @]
      /\ UNCHANGED <<room, localPriority, linkGen, linkOpen, closeEv, closes, sends,
                     lastExpiry, relayLog, relayCount>>

\* handlePeerData, leader_election branch: handleLeaderElection
HandleLeaderElection(r, s, m) ==
  /\ leaderId' = [leaderId EXCEPT ![r] = IF m.leaderId # Null THEN m.leaderId ELSE @]
  /\ net' = [net EXCEPT ![<<s, r>>] = Tail(@)]
  /\ UNCHANGED <<room, localPriority, peers, timers, linkGen, linkOpen, closeEv, closes,
                 sends, lastExpiry, relayLog, relayCount, pingIntervals>>

RelayedTypes == {"sync", "play", "pause", "seek", "buffering", "media_source", "chat"}

\* handlePeerData, chat branch and the final branch for the relayed types:
\* hand to the listener, then relayMessage(message, senderId)
HandleRelayed(r, s, m) ==
  LET targets == RelayTargets(r, peers[r], m.senderId, s)
  IN  /\ sends + Cardinality(targets) <= MaxSends
      /\ net' = Transmit([net EXCEPT ![<<s, r>>] = Tail(@)], r, OutTo(targets, m))
      /\ sends' = sends + Cardinality(targets)
      /\ relayLog' = relayLog \cup
                     {[by |-> r, to |-> q, senderId |-> m.senderId, via |-> s] : q \in targets}
      /\ relayCount' = [relayCount EXCEPT ![r] = IF targets # {} THEN @ + 1 ELSE @]
      /\ UNCHANGED <<room, localPriority, peers, leaderId, timers, linkGen, linkOpen,
                     closeEv, closes, lastExpiry, pingIntervals>>

\* data JSON.parse rejects, as it travels on a link
Unparsable == [type |-> "unparsable", senderId |-> Null, leaderId |-> Null, priority |-> 0]

\* a handlePeerData in which a parse error destroys the receiving connection
HandleUnparsable_Destroy(r, s) ==
  /\ net' = [net EXCEPT ![<<s, r>>] = <<>>, ![<<r, s>>] = <<>>]
  /\ linkOpen' = [linkOpen EXCEPT ![Pair(r, s)] = FALSE]
  /\ closeEv' = closeEv \cup {[at |-> r, peer |-> s, connection |-> linkGen[Pair(r, s)]],
                              [at |-> s, peer |-> r, connection |-> linkGen[Pair(r, s)]]}
  /\ UNCHANGED <<room, localPriority, peers, leaderId, timers, linkGen, closes,
                 sends, lastExpiry, relayLog, relayCount, pingIntervals>>

\* handlePeerData when JSON.parse throws: the catch block logs the error
HandleUnparsable(r, s) ==
  /\ net' = [net EXCEPT ![<<s, r>>] = Tail(@)]
  /\ UNCHANGED <<room, localPriority, peers, leaderId, timers, linkGen, linkOpen,
                 closeEv, closes, sends, lastExpiry, relayLog, relayCount, pingIntervals>>

\* a 'data' event: handlePeerData on the oldest envelope of the link s -> r
Deliver(r, s) ==
  /\ net[<<s, r>>] # <<>>
  /\ LET m == Head(net[<<s, r>>])
     IN  /\ CASE m.type = "unparsable" -> HandleUnparsable(r, s)
              [] m.type = "user_info" -> HandleUserInfo(r, s, m)
              [] m.type = "leader_election" -> HandleLeaderElection(r, s, m)
              [] m.type \in RelayedTypes -> HandleRelayed(r, s, m)
         /\ garbled' = [garbled EXCEPT ![<<s, r>>] =
               IF m.type = "unparsable" THEN "dropped"
               ELSE IF @ = "dropped" THEN "resumed" ELSE @]

\* the remote end s of a link writes data that is not JSON to it (simple-peer
\* passes any bytes on); once per link
Garble(s, r) ==
  /\ s # r
  /\ linkOpen[Pair(s, r)]
  /\ garbled[<<s, r>>] = "none"
  /\ \A i \in 1..Len(net[<<s, r>>]) : net[<<s, r>>][i] # Unparsable
  /\ net' = [net EXCEPT ![<<s, r>>] = Append(@, Unparsable)]
  /\ UNCHANGED <<room, localPriority, peers, leaderId, timers, linkGen, linkOpen,
                 closeEv, closes, sends, lastExpiry, relayLog, relayCount, pingIntervals,
                 garbled>>

\* The link of a pair closes: what was in flight is lost, and each side will
\* get its 'close' event.
Close(a, b) ==
  /\ a < b
  /\ linkOpen[<<a, b>>]
  /\ closes < MaxCloses
  /\ closes' = closes + 1
  /\ linkOpen' = [linkOpen EXCEPT ![<<a, b>>] = FALSE]
  /\ net' = [net EXCEPT ![<<a, b>>] = <<>>, ![<<b, a>>] = <<>>]
  /\ closeEv' = closeEv \cup {[at |-> a, peer |-> b, connection |-> linkGen[<<a, b>>]],
                              [at |-> b, peer |-> a, connection |-> linkGen[<<a, b>>]]}
  /\ UNCHANGED <<room, localPriority, peers, leaderId, timers, linkGen, sends,
                 lastExpiry, relayLog, relayCount, pingIntervals,
                 garbled>>

\* findPeerByConnection: index of the entry that holds this connection object
FindPeerByConnection(ps, peerId, conn) ==
  IF \E i \in 1..Len(ps) : ps[i].id = peerId /\ ps[i].connection = conn
  THEN PeerIndex(ps, peerId)
  ELSE 0

\* a handlePeerDisconnect that forgets the peer at once
Degrade_Remove(ps, i) == DeletePeer(ps, ps[i].id)

\* handlePeerDisconnect: peerEntry.status = 'reconnecting'
Degrade(ps, i) == [ps EXCEPT ![i].status = "reconnecting"]

\* handlePeerDisconnect, up to the arming of the reconnection timeout
HandlePeerDisconnect(ev) ==
  /\ ev \in closeEv
  /\ closeEv' = closeEv \ {ev}
  /\ LET n == ev.at
         i == FindPeerByConnection(peers[n], ev.peer, ev.connection)
     IN  IF i = 0
         THEN UNCHANGED <<peers, timers, pingIntervals>>
         ELSE /\ peers' = [peers EXCEPT ![n] = Degrade(@, i)]
              /\ pingIntervals' = [pingIntervals EXCEPT ![n] = @ \ {ev.peer}]
              /\ timers' = [timers EXCEPT ![n] =
                   Append(@, [peerId |-> ev.peer, handshake |-> FALSE, leftSince |-> 0])]
  /\ UNCHANGED <<room, localPriority, leaderId, linkGen, linkOpen, net, closes, sends,
                 lastExpiry, relayLog, relayCount, garbled>>

\* a timeout callback that looks for the status disconnected
TimeoutRemoves_Disconnected(ps, peerId) ==
  HasPeer(ps, peerId) /\ ps[PeerIndex(ps, peerId)].status = "disconnected"

\* whether the timeout callback removes the peer
TimeoutRemoves(ps, peerId) ==
  HasPeer(ps, peerId) /\ ps[PeerIndex(ps, peerId)].status = "reconnecting"

\* a timeout callback that leaves the leader as it is
LeaderLeft_Never(lid, peerId) == FALSE

\* timeout callback: if (this.leaderId === peerId) electLeader()
LeaderLeft(lid, peerId) == lid = peerId

\* The callback of the oldest reconnection timeout of peer n (all timeouts of
\* a peer have the same delay, so they fire in the order they were armed).
GraceTimeout(n) ==
  /\ timers[n] # <<>>
  /\ LET t == Head(timers[n])
         removes == TimeoutRemoves(peers[n], t.peerId)
         ps2 == IF removes THEN DeletePeer(peers[n], t.peerId) ELSE peers[n]
         elect == removes /\ LeaderLeft(leaderId[n], t.peerId)
         nl == IF elect THEN NewLeader(n, localPriority[n], ps2) ELSE leaderId[n]
     IN  /\ peers' = [peers EXCEPT ![n] = ps2]
         /\ leaderId' = [leaderId EXCEPT ![n] = nl]
         /\ timers' = [timers EXCEPT ![n] =
                         IF removes THEN MarkLeft(Tail(@), t.peerId) ELSE Tail(@)]
         /\ net' = IF nl # leaderId[n]
                   THEN Transmit(net, n, OutTo(BroadcastTargets(n, ps2),
                                               Envelope("leader_election", n, nl, 0)))
                   ELSE net
         /\ lastExpiry' = [lastExpiry EXCEPT ![n] =
              [peerId |-> t.peerId, handshake |-> t.handshake, removed |-> removes,
               present |-> HasPeer(ps2, t.peerId),
               leftSince |-> t.leftSince + (IF removes THEN 1 ELSE 0)]]
  /\ UNCHANGED <<room, localPriority, linkGen, linkOpen, closeEv, closes, sends,
                 relayLog, relayCount, pingIntervals,
                 garbled>>

\* broadcast of one envelope of a relayed type (sendChatMessage,
\* broadcastBuffering, broadcastMediaSource, SyncManager's play/pause/seek/sync)
Broadcast(n, type) ==
  /\ sends = 0
  /\ BroadcastTargets(n, peers[n]) # {}
  /\ sends' = Cardinality(BroadcastTargets(n, peers[n]))
  /\ net' = Transmit(net, n, OutTo(BroadcastTargets(n, peers[n]),
                                   Envelope(type, n, Null, 0)))
  /\ UNCHANGED <<room, localPriority, peers, leaderId, timers, linkGen, linkOpen,
                 closeEv, closes, lastExpiry, relayLog, relayCount, pingIntervals,
                 garbled>>

\* ---------------------------------------------------- MediaController
meshRest == <<room, localPriority, peers, leaderId, timers, linkGen, linkOpen,
              closeEv, closes, sends, lastExpiry, relayLog, relayCount, pingIntervals,
              garbled>>

Files == {[filename |-> "movie.mp4", fileSize |-> 2],
          [filename |-> "movie.mp4", fileSize |-> 1],
          [filename |-> "other.mp4", fileSize |-> 2]}

NoMedia == [type |-> "none", filename |-> "", fileSize |-> 0, loadedBy |-> Null]

NoVoteRequest == [requestId |-> 0, mediaType |-> "none", filename |-> "",
                  fileSize |-> 0, requestedBy |-> Null, votes |-> <<>>]

NoController == [currentMedia |-> NoMedia, pendingFileUploads |-> <<>>,
                 activeVoteRequest |-> NoVoteRequest]

MediaEnvelope(type, senderId, mediaType, f, requestId, vote) ==
  [type |-> type, senderId |-> senderId, mediaType |-> mediaType,
   filename |-> f.filename, fileSize |-> f.fileSize,
   requestId |-> requestId, vote |-> vote]

NoFile == [filename |-> "", fileSize |-> 0]

\* Map.set
MapSet(f, k, v) == [x \in DOMAIN f \cup {k} |-> IF x = k THEN v ELSE f[x]]

\* initializeFileCoordination: self has the file, every connected peer not yet
InitializeFileCoordination(localId, media, connected) ==
  [q \in {localId} \cup connected |->
     IF q \in connected
     THEN [hasFile |-> FALSE, filename |-> "", fileSize |-> 0]
     ELSE [hasFile |-> TRUE, filename |-> media.filename, fileSize |-> media.fileSize]]

\* a confirmation that compares the filename only
Matches_NameOnly(media, filename, fileSize) == filename = media.filename

\* the filename and size check of confirmLocalFileUploaded / handleFileUploaded
Matches(media, filename, fileSize) ==
  filename = media.filename /\ fileSize = media.fileSize

\* status.hasFile = true etc. when the map has an entry for peerId
MarkUploaded(pending, peerId, filename, fileSize) ==
  IF peerId \in DOMAIN pending
  THEN [pending EXCEPT ![peerId] =
          [hasFile |-> TRUE, filename |-> filename, fileSize |-> fileSize]]
  ELSE pending

\* a readiness check that is satisfied by one ready peer
AllReady_Any(pending) == \E q \in DOMAIN pending : pending[q].hasFile

\* checkAllFilesReady: every tracked peer has the file
AllReady(pending) == \A q \in DOMAIN pending : pending[q].hasFile

\* the callbacks fired by one call on the controller of peer n
Emit(n, events) == [at |-> n, events |-> events]

NoEvents == Emit(Null, {})

\* Array.from(votes.values()).filter(...).length
RECURSIVE CountVotes(_, _, _)
CountVotes(votes, keys, v) ==
  IF keys = {} THEN 0
  ELSE LET k == CHOOSE x \in keys : TRUE
       IN  (IF votes[k] = v THEN 1 ELSE 0) + CountVotes(votes, keys \ {k}, v)

\* a tally that accepts on a tie
Accepted_OnTie(votes) ==
  CountVotes(votes, DOMAIN votes, TRUE) >= CountVotes(votes, DOMAIN votes, FALSE)

\* finalizeVote: const accepted = yesCount > noCount
Accepted(votes) ==
  CountVotes(votes, DOMAIN votes, TRUE) > CountVotes(votes, DOMAIN votes, FALSE)

\* finalizeVote that applies the proposed media whatever the tally
FinalizeVote_Regardless(localId, c, connected) ==
  LET req == c.activeVoteRequest
      newMedia == [type |-> req.mediaType, filename |-> req.filename,
                   fileSize |-> req.fileSize, loadedBy |-> req.requestedBy]
  IN  IF req.requestId = 0 THEN c
      ELSE [currentMedia |-> newMedia,
            pendingFileUploads |->
              IF newMedia.type = "local"
              THEN InitializeFileCoordination(localId, newMedia, connected)
              ELSE c.pendingFileUploads,
            activeVoteRequest |-> NoVoteRequest]

\* finalizeVote on the controller c of peer localId
FinalizeVote(localId, c, connected) ==
  LET req == c.activeVoteRequest
      newMedia == [type |-> req.mediaType, filename |-> req.filename,
                   fileSize |-> req.fileSize, loadedBy |-> req.requestedBy]
  IN  IF req.requestId = 0 THEN c
      ELSE IF Accepted(req.votes)
      THEN [currentMedia |-> newMedia,
            pendingFileUploads |->
              IF newMedia.type = "local"
              THEN InitializeFileCoordination(localId, newMedia, connected)
              ELSE c.pendingFileUploads,
            activeVoteRequest |-> NoVoteRequest]
      ELSE [c EXCEPT !.activeVoteRequest = NoVoteRequest]

\* clearTimeout
ClearTimeout(ts, id) == SelectSeq(ts, LAMBDA t : t # id)

VoteInFlightTo(nt, n, requestId) ==
  \E l \in DOMAIN nt : l[2] = n /\ \E i \in 1..Len(nt[l]) :
     nt[l][i].type = "vote_response" /\ nt[l][i].requestId = requestId

NotFinalized == [requestId |-> 0, accepted |-> FALSE, votes |-> <<>>,
                 media |-> NoMedia, castSeen |-> {}, inFlight |-> FALSE,
                 mediaBefore |-> NoMedia, pendingBefore |-> <<>>,
                 pendingAfter |-> <<>>, events |-> {}]

\* the listeners finalizeVote calls: onVoteResult with the outcome, and for an
\* accepted change onMediaChange (when there was a media before) and, for a
\* torrent, onMediaReady
FinalizeEvents(c) ==
  LET req == c.activeVoteRequest
  IN  IF req.requestId = 0 THEN {}
      ELSE IF ~Accepted(req.votes) THEN {"rejected"}
      ELSE {"accepted"}
             \cup (IF c.currentMedia # NoMedia THEN {"media-change"} ELSE {})
             \cup (IF req.mediaType = "local" THEN {} ELSE {"media-ready"})

\* finalizeVote at peer n, whose controller is c, armed timers ts, with nt in
\* flight and cast the votes cast so far
Finalizing(n, c, ts, nt, cast) ==
  LET req == c.activeVoteRequest
      c2 == FinalizeVote(n, c, ConnectedIds(peers[n]))
  IN  /\ mc' = [mc EXCEPT ![n] = c2]
      /\ voteTimers' = [voteTimers EXCEPT ![n] =
                          IF req.requestId = 0 THEN ts ELSE ClearTimeout(ts, req.requestId)]
      /\ finalized' = IF req.requestId = 0 THEN finalized
                      ELSE [finalized EXCEPT ![n] =
                              [requestId |-> req.requestId,
                               accepted |-> Accepted(req.votes),
                               votes |-> req.votes,
                               media |-> c2.currentMedia,
                               castSeen |-> {v \in cast : v.requestId = req.requestId},
                               inFlight |-> VoteInFlightTo(nt, n, req.requestId),
                               mediaBefore |-> c.currentMedia,
                               pendingBefore |-> c.pendingFileUploads,
                               pendingAfter |-> c2.pendingFileUploads,
                               events |-> FinalizeEvents(c)]]
      /\ mediaReady' = IF req.requestId = 0 \/ ~Accepted(req.votes) THEN mediaReady
                       ELSE [mediaReady EXCEPT ![n] = IF req.mediaType = "local" THEN 0 ELSE 1]
      /\ emitted' = Emit(n, FinalizeEvents(c))

\* requestMediaChange: the new VoteRequest replaces activeVoteRequest, the
\* requester votes yes, a 30 s timeout is armed, the request is broadcast
RequestMediaChange(n, mediaType, f) ==
  /\ mc' = [mc EXCEPT ![n].activeVoteRequest =
       [requestId |-> nextRequestId, mediaType |-> mediaType,
        filename |-> f.filename, fileSize |-> f.fileSize, requestedBy |-> n,
        votes |-> MapSet(<<>>, n, TRUE)]]
  /\ voteTimers' = [voteTimers EXCEPT ![n] = Append(@, nextRequestId)]
  /\ nextRequestId' = nextRequestId + 1
  /\ castVotes' = castVotes \cup {[requestId |-> nextRequestId, voter |-> n, vote |-> TRUE]}
  /\ net' = Transmit(net, n, OutTo(BroadcastTargets(n, peers[n]),
              MediaEnvelope("media_change_request", n, mediaType, f, nextRequestId, FALSE)))
  /\ emitted' = Emit(n, {})
  /\ UNCHANGED <<finalized, lastConfirm, mediaReady>>

\* the first load of loadLocalFile / loadTorrent
FirstLoad(n, mediaType, f) ==
  LET media == [type |-> mediaType, filename |-> f.filename,
                fileSize |-> f.fileSize, loadedBy |-> n]
  IN  /\ mc' = [mc EXCEPT ![n].currentMedia = media,
                          ![n].pendingFileUploads =
                             IF mediaType = "local"
                             THEN InitializeFileCoordination(n, media, ConnectedIds(peers[n]))
                             ELSE @]
      /\ net' = Transmit(net, n, OutTo(BroadcastTargets(n, peers[n]),
                  MediaEnvelope("media_loaded", n, mediaType, f, 0, FALSE)))
      /\ mediaReady' = [mediaReady EXCEPT ![n] = IF mediaType = "local" THEN 0 ELSE 1]
      /\ emitted' = Emit(n, IF mediaType = "local" THEN {} ELSE {"media-ready"})
      /\ UNCHANGED <<voteTimers, nextRequestId, castVotes, finalized, lastConfirm>>

\* loadLocalFile
LoadLocalFile(n, f) ==
  /\ budget.loads > 0
  /\ budget' = [budget EXCEPT !.loads = @ - 1]
  /\ IF mc[n].currentMedia # NoMedia
     THEN RequestMediaChange(n, "local", f)
     ELSE FirstLoad(n, "local", f)
  /\ UNCHANGED meshRest

\* loadTorrent
LoadTorrent(n, f) ==
  /\ budget.loads > 0
  /\ budget' = [budget EXCEPT !.loads = @ - 1]
  /\ IF mc[n].currentMedia # NoMedia
     THEN RequestMediaChange(n, "torrent", f)
     ELSE FirstLoad(n, "torrent", f)
  /\ UNCHANGED meshRest

NoConfirm == [peer |-> Null, sameName |-> TRUE, sameSize |-> TRUE,
              changed |-> FALSE, hasFile |-> FALSE]

Confirmation(peer, media, filename, fileSize, before, after) ==
  [peer |-> peer, sameName |-> (filename = media.filename),
   sameSize |-> (fileSize = media.fileSize), changed |-> (before # after),
   hasFile |-> (peer \in DOMAIN after /\ after[peer].hasFile)]

\* confirmLocalFileUploaded, called while local media is current
ConfirmLocalFileUploaded(n, f) ==
  /\ budget.confirms > 0
  /\ mc[n].currentMedia.type = "local"
  /\ budget' = [budget EXCEPT !.confirms = @ - 1]
  /\ LET c == mc[n]
         ok == Matches(c.currentMedia, f.filename, f.fileSize)
         after == IF ok THEN MarkUploaded(c.pendingFileUploads, n, f.filename, f.fileSize)
                  ELSE c.pendingFileUploads
     IN  /\ mc' = [mc EXCEPT ![n].pendingFileUploads = after]
         /\ net' = IF ok
                   THEN Transmit(net, n, OutTo(BroadcastTargets(n, peers[n]),
                          MediaEnvelope("file_uploaded", n, "local", f, 0, FALSE)))
                   ELSE net
         /\ lastConfirm' = [lastConfirm EXCEPT ![n] =
              Confirmation(n, c.currentMedia, f.filename, f.fileSize,
                           c.pendingFileUploads, after)]
         /\ mediaReady' = IF ok /\ AllReady(after)
                          THEN [mediaReady EXCEPT ![n] = @ + 1] ELSE mediaReady
         /\ emitted' = Emit(n, IF ok /\ AllReady(after) THEN {"media-ready"} ELSE {})
  /\ UNCHANGED <<voteTimers, nextRequestId, castVotes, finalized>>
  /\ UNCHANGED meshRest

\* submitVote, called while a VoteRequest is outstanding
SubmitVote(n, accept) ==
  /\ budget.votes > 0
  /\ mc[n].activeVoteRequest # NoVoteRequest
  /\ budget' = [budget EXCEPT !.votes = @ - 1]
  /\ LET req == mc[n].activeVoteRequest
         c == [mc[n] EXCEPT !.activeVoteRequest.votes = MapSet(@, n, accept)]
         nt == Transmit(net, n, OutTo(BroadcastTargets(n, peers[n]),
                 MediaEnvelope("vote_response", n, "none", NoFile, req.requestId, accept)))
         cast == castVotes \cup {[requestId |-> req.requestId, voter |-> n, vote |-> accept]}
         totalPeers == Cardinality(ConnectedIds(peers[n])) + 1
     IN  /\ net' = nt
         /\ castVotes' = cast
         /\ IF Cardinality(DOMAIN c.activeVoteRequest.votes) >= totalPeers
            THEN Finalizing(n, c, voteTimers[n], nt, cast)
            ELSE /\ mc' = [mc EXCEPT ![n] = c]
                 /\ emitted' = Emit(n, {})
                 /\ UNCHANGED <<voteTimers, finalized, mediaReady>>
  /\ UNCHANGED <<nextRequestId, lastConfirm>>
  /\ UNCHANGED meshRest

\* the callback of the oldest vote timeout of peer n: finalizeVote
VoteTimeout(n) ==
  /\ voteTimers[n] # <<>>
  /\ Finalizing(n, mc[n], Tail(voteTimers[n]), net, castVotes)
  /\ UNCHANGED <<net, nextRequestId, budget, castVotes, lastConfirm>>
  /\ UNCHANGED meshRest

\* handleMediaLoaded
HandleMediaLoaded(r, m) ==
  LET media == [type |-> m.mediaType, filename |-> m.filename,
                fileSize |-> m.fileSize, loadedBy |-> m.senderId]
  IN  /\ mc' = IF mc[r].currentMedia # NoMedia THEN mc
               ELSE [mc EXCEPT ![r].currentMedia = media,
                               ![r].pendingFileUploads =
                                  IF m.mediaType = "local"
                                  THEN InitializeFileCoordination(r, media, ConnectedIds(peers[r]))
                                  ELSE @]
      /\ mediaReady' = IF mc[r].currentMedia # NoMedia THEN mediaReady
                       ELSE [mediaReady EXCEPT ![r] = IF m.mediaType = "local" THEN 0 ELSE 1]
      /\ emitted' = Emit(r, IF mc[r].currentMedia = NoMedia /\ m.mediaType # "local"
                            THEN {"media-ready"} ELSE {})
      /\ UNCHANGED <<voteTimers, nextRequestId, castVotes, finalized, lastConfirm>>

\* handleFileUploaded
HandleFileUploaded(r, m) ==
  LET c == mc[r]
      ok == c.currentMedia.type = "local" /\ Matches(c.currentMedia, m.filename, m.fileSize)
      after == IF ok THEN MarkUploaded(c.pendingFileUploads, m.senderId, m.filename, m.fileSize)
               ELSE c.pendingFileUploads
  IN  /\ mc' = [mc EXCEPT ![r].pendingFileUploads = after]
      /\ lastConfirm' = IF c.currentMedia.type = "local"
                        THEN [lastConfirm EXCEPT ![r] =
                                Confirmation(m.senderId, c.currentMedia, m.filename,
                                             m.fileSize, c.pendingFileUploads, after)]
                        ELSE lastConfirm
      /\ mediaReady' = IF ok /\ AllReady(after)
                       THEN [mediaReady EXCEPT ![r] = @ + 1] ELSE mediaReady
      /\ emitted' = Emit(r, IF ok /\ AllReady(after) THEN {"media-ready"} ELSE {})
      /\ UNCHANGED <<voteTimers, nextRequestId, castVotes, finalized>>

\* handleMediaChangeRequest
HandleMediaChangeRequest(r, m) ==
  IF mc[r].activeVoteRequest # NoVoteRequest
  THEN /\ emitted' = Emit(r, {})
       /\ UNCHANGED <<mc, voteTimers, nextRequestId, castVotes, finalized, lastConfirm,
                      mediaReady>>
  ELSE /\ mc' = [mc EXCEPT ![r].activeVoteRequest =
            [requestId |-> m.requestId, mediaType |-> m.mediaType,
             filename |-> m.filename, fileSize |-> m.fileSize,
             requestedBy |-> m.senderId, votes |-> <<>>]]
       /\ voteTimers' = [voteTimers EXCEPT ![r] = Append(@, m.requestId)]
       /\ emitted' = Emit(r, {})
       /\ UNCHANGED <<nextRequestId, castVotes, finalized, lastConfirm, mediaReady>>

\* handleVoteResponse; nt is what stays in flight
HandleVoteResponse(r, m, nt) ==
  LET req == mc[r].activeVoteRequest
      c == [mc[r] EXCEPT !.activeVoteRequest.votes = MapSet(@, m.senderId, m.vote)]
      totalPeers == Cardinality(ConnectedIds(peers[r])) + 1
  IN  IF req = NoVoteRequest \/ m.requestId # req.requestId
      THEN /\ emitted' = Emit(r, {})
           /\ UNCHANGED <<mc, voteTimers, nextRequestId, castVotes, finalized, lastConfirm,
                          mediaReady>>
      ELSE /\ IF Cardinality(DOMAIN c.activeVoteRequest.votes) >= totalPeers
              THEN Finalizing(r, c, voteTimers[r], nt, castVotes)
              ELSE /\ mc' = [mc EXCEPT ![r] = c]
                   /\ emitted' = Emit(r, {})
                   /\ UNCHANGED <<voteTimers, finalized, mediaReady>>
           /\ UNCHANGED <<nextRequestId, castVotes, lastConfirm>>

\* MeshNetwork.onMessage keeps one listener: the MediaController registers
\* its own when the room is created or joined, the SyncManager replaces it
\* when it is constructed.  TRUE when the listener is the MediaController's.
MediaListens(r) == ~sm[r].constructed

\* a 'data' event with a media envelope: handlePeerData hands it to the
\* message listener and, its type not being one of the relayed ones, does not
\* relay it.  The listener of MediaController.setupMessageHandlers dispatches
\* on the type; the one of the SyncManager (handleSyncMessage) has no case
\* for these types.
DeliverMedia(r, s) ==
  /\ net[<<s, r>>] # <<>>
  /\ LET m == Head(net[<<s, r>>])
         nt == [net EXCEPT ![<<s, r>>] = Tail(@)]
     IN  /\ net' = nt
         /\ IF MediaListens(r)
            THEN CASE m.type = "media_loaded" -> HandleMediaLoaded(r, m)
                   [] m.type = "file_uploaded" -> HandleFileUploaded(r, m)
                   [] m.type = "media_change_request" -> HandleMediaChangeRequest(r, m)
                   [] m.type = "vote_response" -> HandleVoteResponse(r, m, nt)
            ELSE UNCHANGED <<mc, voteTimers, nextRequestId, castVotes, finalized,
                             lastConfirm, mediaReady, emitted>>
  /\ UNCHANGED budget
  /\ UNCHANGED meshRest

\* ------------------------------------------------------- SyncManager
\* Positions and latencies are in milliseconds (the program holds seconds as
\* floating-point numbers), playback rates in percent.
DriftThreshold == 300
SoftCorrectionThreshold == 700
HardSeekThreshold == 2000
SmallNudge == 3
LargeNudge == 8

\* a SyncManager without video element, as constructed
\* (constructed: the application has created it and it has registered its
\* listeners with the MeshNetwork; intervals: the armed setInterval timers,
\* syncInterval the one the field this.syncInterval refers to)
NoSyncManager ==
  [constructed |-> FALSE, video |-> FALSE, paused |-> TRUE, currentTime |-> 0,
   playbackRate |-> 100, rateTimers |-> 0, recentSync |-> FALSE,
   latencyBuffer |-> <<>>, averageLatency |-> 0,
   syncInterval |-> Null, intervals |-> {},
   peersBuffering |-> {}, wasPlayingBeforeBuffer |-> FALSE]

NoSync == [peer |-> Null, drift |-> 0, expected |-> 0, skipped |-> FALSE]

Abs(x) == IF x < 0 THEN -x ELSE x

RECURSIVE InsertAsc(_, _)
InsertAsc(x, q) ==
  IF q = <<>> THEN <<x>>
  ELSE IF x < q[1] THEN <<x>> \o q
  ELSE <<q[1]>> \o InsertAsc(x, Tail(q))

\* [...latencyBuffer].sort((a, b) => a - b)
RECURSIVE SortAsc(_)
SortAsc(q) == IF q = <<>> THEN <<>> ELSE InsertAsc(q[1], SortAsc(Tail(q)))

RECURSIVE Sum(_)
Sum(q) == IF q = <<>> THEN 0 ELSE q[1] + Sum(Tail(q))

\* updateLatencyEstimate: keep the last ten samples, average them without
\* the smallest and the largest one (whole milliseconds)
UpdateLatencyEstimate(s, latency) ==
  LET pushed == Append(s.latencyBuffer, latency)
      buf == IF Len(pushed) > 10 THEN Tail(pushed) ELSE pushed
      sorted == SortAsc(buf)
      trimmed == IF Len(sorted) > 2 THEN SubSeq(sorted, 2, Len(sorted) - 1) ELSE <<>>
  IN  [s EXCEPT !.latencyBuffer = buf,
                !.averageLatency = IF Len(trimmed) > 0
                                   THEN Sum(trimmed) \div Len(trimmed) ELSE latency]

\* applySync: expectedPosition
ExpectedPosition(s, m) ==
  IF m.isPlaying THEN m.position + m.latency + (s.averageLatency \div 2)
  ELSE m.position

\* applySync: absDrift > this.hardSeekThreshold
SeeksAt(absDrift) == absDrift > HardSeekThreshold

\* applySync: absDrift > this.softCorrectionThreshold
LargeNudgeAt(absDrift) == absDrift > SoftCorrectionThreshold

\* applySync on the SyncManager s for the sync sample m, received latency
\* milliseconds after it was stamped
ApplySync(s, m) ==
  IF ~s.video THEN s
  ELSE IF s.recentSync THEN s
  ELSE LET s1 == [UpdateLatencyEstimate(s, m.latency) EXCEPT !.recentSync = TRUE]
           expected == ExpectedPosition(s1, m)
           drift == s1.currentTime - expected
           absDrift == Abs(drift)
       IN  IF absDrift < DriftThreshold
           THEN [s1 EXCEPT !.playbackRate = 100]
           ELSE IF SeeksAt(absDrift)
           THEN [s1 EXCEPT !.currentTime = expected, !.playbackRate = 100,
                           !.paused = ~m.isPlaying]
           ELSE IF LargeNudgeAt(absDrift)
           THEN [s1 EXCEPT !.playbackRate = IF drift > 0 THEN 100 - LargeNudge
                                            ELSE 100 + LargeNudge,
                           !.rateTimers = @ + 1, !.paused = ~m.isPlaying]
           ELSE [s1 EXCEPT !.playbackRate = IF drift > 0 THEN 100 - SmallNudge
                                            ELSE 100 + SmallNudge,
                           !.rateTimers = @ + 1, !.paused = ~m.isPlaying]

\* what applySync of peer n did with the sample m, s2 being its new state
SyncObserved(n, s2, m) ==
  [peer |-> n,
   drift |-> sm[n].currentTime - ExpectedPosition(s2, m),
   expected |-> ExpectedPosition(s2, m),
   skipped |-> ~sm[n].video \/ sm[n].recentSync]

\* a sync sample reaches handleSyncMessage of peer n
ApplySyncStep(n, m) ==
  /\ lastSync.peer = Null
  /\ sm' = [sm EXCEPT ![n] = ApplySync(@, m)]
  /\ lastSync' = SyncObserved(n, sm'[n], m)
  /\ UNCHANGED <<originated, bufferLog>>

\* setInterval: the handle of the new timer
NewInterval(s) == CHOOSE i \in 1..(Cardinality(s.intervals) + 1) : i \notin s.intervals

\* startSyncLoop; isLeader is network.isLeader() at the call
StartSyncLoop(s, isLeader) ==
  IF ~isLeader THEN s
  ELSE [s EXCEPT !.syncInterval = NewInterval(s),
                 !.intervals = @ \cup {NewInterval(s)}]

\* stopSyncLoop
StopSyncLoop(s) ==
  IF s.syncInterval = Null THEN s
  ELSE [s EXCEPT !.syncInterval = Null, !.intervals = @ \ {s.syncInterval}]

\* the onLeaderChange listener of the SyncManager of peer n
OnLeaderChange(s, n, newLeaderId) ==
  IF ~s.constructed THEN s
  ELSE IF newLeaderId = n THEN StartSyncLoop(s, TRUE)
  ELSE StopSyncLoop(s)

\* a sync loop that sends whoever the leader is
SendsSync_Always(s, n, leader) == s.video

\* sendSyncUpdate / sendCurrentState: if (!videoElement || !isLeader()) return
SendsSync(s, n, leader) == s.video /\ leader = n

SyncSample(n, s) ==
  [type |-> "sync", senderId |-> n, leaderId |-> Null, priority |-> 0,
   position |-> s.currentTime, isPlaying |-> ~s.paused]

NoneOriginated == [n \in PeerIds |-> [sent |-> 0, strayed |-> FALSE, held |-> FALSE]]

SyncsSent == originated[1].sent + originated[2].sent + originated[3].sent

\* sendSyncUpdate / sendCurrentState of peer n: what is in flight afterwards
\* and what the observer notes
SendSync(n, nt) ==
  IF SendsSync(sm[n], n, leaderId[n])
  THEN /\ SyncsSent < MaxSyncs
       /\ net' = Transmit(nt, n, OutTo(BroadcastTargets(n, peers[n]), SyncSample(n, sm[n])))
       /\ originated' = [originated EXCEPT ![n].sent = @ + 1,
                                           ![n].strayed = @ \/ leaderId[n] # n]
  ELSE /\ net' = nt
       /\ originated' = [originated EXCEPT ![n].held = @ \/ (sm[n].video /\ leaderId[n] # n)]

\* The application starts playback at peer n: it constructs the SyncManager,
\* hands it the video element (setVideoElement starts the loop at the
\* leader) and calls notifyReady.
StartWatching(n) ==
  /\ n \in room
  /\ ~sm[n].constructed
  /\ sm' = [sm EXCEPT ![n] =
       StartSyncLoop([@ EXCEPT !.constructed = TRUE, !.video = TRUE], leaderId[n] = n)]
  /\ net' = Transmit(net, n, OutTo(BroadcastTargets(n, peers[n]),
                                   Envelope("ready", n, Null, 0)))
  /\ UNCHANGED <<room, localPriority, peers, leaderId, timers, linkGen, linkOpen,
                 closeEv, closes, sends, lastExpiry, relayLog, relayCount, pingIntervals,
                 garbled>>
  /\ UNCHANGED <<lastSync, originated, bufferLog>>

\* an armed sync interval of peer n fires: sendSyncUpdate
SyncTick(n) ==
  /\ sm[n].intervals # {}
  /\ SendSync(n, net)
  /\ UNCHANGED <<room, localPriority, peers, leaderId, timers, linkGen, linkOpen,
                 closeEv, closes, sends, lastExpiry, relayLog, relayCount, pingIntervals,
                 garbled>>
  /\ UNCHANGED <<sm, lastSync, bufferLog>>

\* 200 ms have passed since peer n last applied a sync sample
Elapse(n) ==
  /\ sm[n].recentSync
  /\ sm' = [sm EXCEPT ![n].recentSync = FALSE]
  /\ UNCHANGED <<meshVars, lastSync, originated, bufferLog>>

\* the leaderId the onLeaderChange listener of peer r is called with while r
\* handles the envelope m from s (Null: it is not called)
LeaderAnnounced(r, s, m) ==
  IF m.type = "user_info"
  THEN LET reg == RegisterPeer(r, localPriority[r], peers[r], leaderId[r],
                               linkGen[Pair(r, s)], m.senderId, m.priority)
       IN  IF reg.announce THEN reg.leaderId ELSE Null
  ELSE m.leaderId

\* a 'data' event at peer r with SyncManager and MeshNetwork both in place
DeliverSync(r, s) ==
  /\ net[<<s, r>>] # <<>>
  /\ LET m == Head(net[<<s, r>>])
     IN  CASE m.type \in {"user_info", "leader_election"} ->
                /\ Deliver(r, s)
                /\ sm' = IF LeaderAnnounced(r, s, m) = Null THEN sm
                         ELSE [sm EXCEPT ![r] = OnLeaderChange(@, r, LeaderAnnounced(r, s, m))]
                /\ UNCHANGED <<lastSync, originated, bufferLog>>
           [] m.type = "sync" ->
                /\ Deliver(r, s)
                /\ \E latency \in {0, MaxLatency} :
                     LET sample == [position |-> m.position, isPlaying |-> m.isPlaying,
                                    latency |-> latency]
                     IN  /\ sm' = [sm EXCEPT ![r] = ApplySync(@, sample)]
                         /\ lastSync' = SyncObserved(r, sm'[r], sample)
                /\ UNCHANGED <<originated, bufferLog>>
           [] m.type = "ready" ->
                /\ SendSync(r, [net EXCEPT ![<<s, r>>] = Tail(@)])
                /\ UNCHANGED <<room, localPriority, peers, leaderId, timers, linkGen,
                               linkOpen, closeEv, closes, sends, lastExpiry, relayLog,
                               relayCount, pingIntervals,
                               garbled>>
                /\ UNCHANGED <<sm, lastSync, bufferLog>>

\* ---- buffering
NoEpisode == [pausedAtEntry |-> FALSE, autoPaused |-> FALSE]

NoBufferLog ==
  [last |-> [peer |-> Null, kind |-> "none", pausedBefore |-> FALSE,
             pausedAfter |-> FALSE, remembered |-> FALSE,
             autoPaused |-> FALSE, pausedAtEntry |-> FALSE],
   episode |-> [n \in PeerIds |-> NoEpisode],
   ops |-> 0]

\* handlePeerBuffering that resumes whenever the set becomes empty
HandlePeerBuffering_ResumeAlways(s, peerId, isBuffering) ==
  IF isBuffering
  THEN LET s1 == IF s.peersBuffering = {} /\ s.video /\ ~s.paused
                 THEN [s EXCEPT !.wasPlayingBeforeBuffer = TRUE, !.paused = TRUE]
                 ELSE s
       IN  [s1 EXCEPT !.peersBuffering = @ \cup {peerId}]
  ELSE LET s1 == [s EXCEPT !.peersBuffering = @ \ {peerId}]
       IN  IF s1.peersBuffering = {} /\ s1.video
           THEN [s1 EXCEPT !.wasPlayingBeforeBuffer = FALSE, !.paused = FALSE]
           ELSE s1

\* handlePeerBuffering (peersBuffering is a map keyed by the peer's id; its
\* key set is kept)
HandlePeerBuffering(s, peerId, isBuffering) ==
  IF isBuffering
  THEN LET s1 == IF s.peersBuffering = {} /\ s.video /\ ~s.paused
                 THEN [s EXCEPT !.wasPlayingBeforeBuffer = TRUE, !.paused = TRUE]
                 ELSE s
       IN  [s1 EXCEPT !.peersBuffering = @ \cup {peerId}]
  ELSE LET s1 == [s EXCEPT !.peersBuffering = @ \ {peerId}]
       IN  IF s1.peersBuffering = {} /\ s1.wasPlayingBeforeBuffer /\ s1.video
           THEN [s1 EXCEPT !.wasPlayingBeforeBuffer = FALSE, !.paused = FALSE]
           ELSE s1

\* what the observer notes when handlePeerBuffering takes peer n from s to s2
BufferObserved(n, s, s2) ==
  LET kind == IF s.peersBuffering = {} /\ s2.peersBuffering # {} THEN "entered"
              ELSE IF s.peersBuffering # {} /\ s2.peersBuffering = {} THEN "emptied"
              ELSE "other"
      ep == bufferLog.episode[n]
  IN  [bufferLog EXCEPT
         !.last = [peer |-> n, kind |-> kind, pausedBefore |-> s.paused,
                   pausedAfter |-> s2.paused,
                   remembered |-> s2.wasPlayingBeforeBuffer,
                   autoPaused |-> ep.autoPaused, pausedAtEntry |-> ep.pausedAtEntry],
         !.episode[n] = IF kind = "entered"
                        THEN [pausedAtEntry |-> s.paused,
                              autoPaused |-> ~s.paused /\ s2.paused]
                        ELSE IF kind = "emptied" THEN NoEpisode ELSE ep]

BufferingMessage(n, isBuffering) ==
  [type |-> "buffering", senderId |-> n, leaderId |-> Null, priority |-> 0,
   bufferingUserId |-> n, isBuffering |-> isBuffering]

PlaybackMessage(n, type, s) ==
  [type |-> type, senderId |-> n, leaderId |-> Null, priority |-> 0,
   position |-> s.currentTime, isPlaying |-> (type = "play")]

\* updateAdaptiveSync: the leader restarts its sync loop
UpdateAdaptiveSync(s, isLeader) ==
  IF isLeader THEN StartSyncLoop(StopSyncLoop(s), TRUE) ELSE s

\* the 'waiting' (isBuffering) or 'playing' / 'canplay' event of the video of
\* peer n: handleLocalBuffering
LocalBuffering(n, isBuffering) ==
  /\ sm[n].video
  /\ bufferLog.ops < MaxBufferOps
  /\ net' = Transmit(net, n, OutTo(BroadcastTargets(n, peers[n]),
                                   BufferingMessage(n, isBuffering)))
  /\ bufferLog' = [bufferLog EXCEPT !.ops = @ + 1]
  /\ UNCHANGED <<room, localPriority, peers, leaderId, timers, linkGen, linkOpen,
                 closeEv, closes, sends, lastExpiry, relayLog, relayCount, pingIntervals,
                 garbled>>
  /\ UNCHANGED <<sm, lastSync, originated>>

\* the user of peer n starts the player: the 'play' event, handleLocalPlay
LocalPlay(n) ==
  /\ sm[n].video /\ sm[n].paused
  /\ bufferLog.ops < MaxBufferOps
  /\ bufferLog' = [bufferLog EXCEPT !.ops = @ + 1]
  /\ IF sm[n].peersBuffering # {}
     THEN /\ sm' = [sm EXCEPT ![n].paused = FALSE]
          /\ UNCHANGED net
     ELSE /\ sm' = [sm EXCEPT ![n] =
               UpdateAdaptiveSync([@ EXCEPT !.paused = FALSE], leaderId[n] = n)]
          /\ net' = Transmit(net, n, OutTo(BroadcastTargets(n, peers[n]),
                                           PlaybackMessage(n, "play", sm[n])))
  /\ UNCHANGED <<room, localPriority, peers, leaderId, timers, linkGen, linkOpen,
                 closeEv, closes, sends, lastExpiry, relayLog, relayCount, pingIntervals,
                 garbled>>
  /\ UNCHANGED <<lastSync, originated>>

\* the user of peer n pauses the player: the 'pause' event, handleLocalPause
LocalPause(n) ==
  /\ sm[n].video /\ ~sm[n].paused
  /\ bufferLog.ops < MaxBufferOps
  /\ bufferLog' = [bufferLog EXCEPT !.ops = @ + 1]
  /\ sm' = [sm EXCEPT ![n] =
       UpdateAdaptiveSync([@ EXCEPT !.paused = TRUE], leaderId[n] = n)]
  /\ net' = Transmit(net, n, OutTo(BroadcastTargets(n, peers[n]),
                                   PlaybackMessage(n, "pause", sm[n])))
  /\ UNCHANGED <<room, localPriority, peers, leaderId, timers, linkGen, linkOpen,
                 closeEv, closes, sends, lastExpiry, relayLog, relayCount, pingIntervals,
                 garbled>>
  /\ UNCHANGED <<lastSync, originated>>

\* applyPlay / applyPause
ApplyPlayback(s, m, isLeader) ==
  IF ~s.video THEN s
  ELSE UpdateAdaptiveSync(
         [s EXCEPT !.currentTime = IF Abs(@ - m.position) > DriftThreshold
                                   THEN m.position ELSE @,
                   !.paused = ~m.isPlaying], isLeader)

\* a 'data' event at peer r carrying a buffering, play or pause envelope:
\* handleSyncMessage, then the relay of handlePeerData
DeliverBuffer(r, s) ==
  /\ net[<<s, r>>] # <<>>
  /\ Deliver(r, s)
  /\ LET m == Head(net[<<s, r>>])
     IN  IF m.type = "buffering"
         THEN LET s2 == IF sm[r].video
                        THEN HandlePeerBuffering(sm[r], m.bufferingUserId, m.isBuffering)
                        ELSE sm[r]
              IN  /\ sm' = [sm EXCEPT ![r] = s2]
                  /\ bufferLog' = IF sm[r].video THEN BufferObserved(r, sm[r], s2)
                                  ELSE bufferLog
         ELSE /\ sm' = [sm EXCEPT ![r] = ApplyPlayback(@, m, leaderId[r] = r)]
              /\ UNCHANGED bufferLog
  /\ UNCHANGED <<lastSync, originated>>

\* ---- leaving the room
\* SyncManager.cleanup
SyncCleanup(s) ==
  [StopSyncLoop(s) EXCEPT !.video = FALSE, !.peersBuffering = {}]

\* the reconnection timeouts that reconnectTimeouts does not hold any more:
\* set() for a peer replaced the handle of its earlier timeout
Orphaned(ts) ==
  LET kept == {i \in 1..Len(ts) : \E j \in (i + 1)..Len(ts) : ts[j].peerId = ts[i].peerId}
      Pick[i \in 0..Len(ts)] ==
        IF i = 0 THEN <<>>
        ELSE IF i \in kept THEN Append(Pick[i - 1], ts[i]) ELSE Pick[i - 1]
  IN  Pick[Len(ts)]

\* the peers whose registered connection at n is the open link of the pair
LiveConnections(n) ==
  {q \in PeerIds \ {n} :
     /\ HasPeer(peers[n], q)
     /\ linkOpen[Pair(n, q)]
     /\ peers[n][PeerIndex(peers[n], q)].connection = linkGen[Pair(n, q)]}

\* The application of peer n leaves the room: cleanup(), that is
\* SyncManager.cleanup and MeshNetwork.disconnect.  The MediaController is
\* not touched.  The far side of every destroyed connection gets its 'close'
\* event (the near side's finds no peer any more).
Cleanup(n) ==
  /\ n \in room
  /\ sm' = [sm EXCEPT ![n] = IF @.constructed THEN SyncCleanup(@) ELSE @]
  /\ timers' = [timers EXCEPT ![n] = Orphaned(@)]
  /\ peers' = [peers EXCEPT ![n] = <<>>]
  /\ leaderId' = [leaderId EXCEPT ![n] = Null]
  /\ room' = room \ {n}
  /\ linkOpen' = [p \in Pairs |->
       IF \E q \in LiveConnections(n) : p = Pair(n, q) THEN FALSE ELSE linkOpen[p]]
  /\ net' = [l \in DOMAIN net |->
       IF \E q \in LiveConnections(n) : l \in {<<n, q>>, <<q, n>>} THEN <<>> ELSE net[l]]
  /\ closeEv' = closeEv \cup
       {[at |-> q, peer |-> n, connection |-> linkGen[Pair(n, q)]] : q \in LiveConnections(n)}
  /\ pingIntervals' = [pingIntervals EXCEPT ![n] = {}]
  /\ UNCHANGED <<localPriority, linkGen, closes, sends, lastExpiry, relayLog, relayCount, garbled>>
  /\ UNCHANGED <<lastSync, originated, bufferLog>>

SyncIdle ==
  /\ sm = [n \in PeerIds |-> NoSyncManager]
  /\ lastSync = NoSync
  /\ originated = NoneOriginated
  /\ bufferLog = NoBufferLog


MeshIdle ==
  /\ timers = [n \in PeerIds |-> <<>>]
  /\ closeEv = {}
  /\ closes = 0
  /\ sends = 0
  /\ lastExpiry = [n \in PeerIds |-> NoExpiry]
  /\ relayLog = {}
  /\ relayCount = [n \in PeerIds |-> 0]
  /\ pingIntervals = [n \in PeerIds |-> {peers[n][i].id : i \in 1..Len(peers[n])}]
  /\ garbled = [l \in {x \in PeerIds \X PeerIds : x[1] # x[2]} |-> "none"]

Links == {x \in PeerIds \X PeerIds : x[1] # x[2]}

\* no link exists yet; peer 1 created the room (createRoom sets leaderId to
\* itself), the others have not joined
Unconnected ==
  /\ peers = [n \in PeerIds |-> <<>>]
  /\ leaderId = [n \in PeerIds |-> IF n = 1 THEN 1 ELSE Null]
  /\ linkGen = [p \in Pairs |-> 0]
  /\ linkOpen = [p \in Pairs |-> FALSE]
  /\ net = [l \in Links |-> <<>>]
  /\ MeshIdle

\* Two peers start their instances: peer 1 created the room, peer 2 is about
\* to join.
MeshInit ==
  /\ room = {1, 2}
  /\ localPriority \in {f \in [PeerIds -> Priorities] : f[3] = 1}
  /\ Unconnected

MeshOff ==
  /\ room = {}
  /\ localPriority = [n \in PeerIds |-> 1]
  /\ Unconnected

TwinIdle == twin = <<>> /\ twinPrio = <<>>

MediaIdle ==
  /\ mc = [n \in PeerIds |-> NoController]
  /\ voteTimers = [n \in PeerIds |-> <<>>]
  /\ nextRequestId = 1
  /\ castVotes = {}
  /\ finalized = [n \in PeerIds |-> NotFinalized]
  /\ lastConfirm = [n \in PeerIds |-> NoConfirm]
  /\ mediaReady = [n \in PeerIds |-> 0]
  /\ emitted = NoEvents

NoBudget == budget = [loads |-> 0, confirms |-> 0, votes |-> 0]

Init == MeshInit /\ TwinIdle /\ MediaIdle /\ NoBudget /\ SyncIdle

Next ==
  \/ \E a, b \in PeerIds : Connect(a, b) /\ UNCHANGED <<twinVars, mediaVars, syncVars>>
  \/ \E r, s \in PeerIds : r # s /\ Deliver(r, s) /\ UNCHANGED <<twinVars, mediaVars, syncVars>>
  \/ \E a, b \in PeerIds : Close(a, b) /\ UNCHANGED <<twinVars, mediaVars, syncVars>>
  \/ \E ev \in closeEv : HandlePeerDisconnect(ev) /\ UNCHANGED <<twinVars, mediaVars, syncVars>>
  \/ \E n \in PeerIds : GraceTimeout(n) /\ UNCHANGED <<twinVars, mediaVars, syncVars>>

Spec == Init /\ [][Next]_vars

\* The same two peers, on whose links unparsable data may arrive; a link
\* closes at most LeaveCloses times.
GarbageStart == Init

GarbageNext ==
  \/ \E a, b \in PeerIds : Connect(a, b) /\ UNCHANGED <<twinVars, mediaVars, syncVars>>
  \/ \E s, r \in PeerIds : Garble(s, r) /\ UNCHANGED <<twinVars, mediaVars, syncVars>>
  \/ \E r, s \in PeerIds : r # s /\ Deliver(r, s) /\ UNCHANGED <<twinVars, mediaVars, syncVars>>
  \/ \E a, b \in PeerIds :
       closes < LeaveCloses /\ Close(a, b) /\ UNCHANGED <<twinVars, mediaVars, syncVars>>
  \/ \E ev \in closeEv : HandlePeerDisconnect(ev) /\ UNCHANGED <<twinVars, mediaVars, syncVars>>
  \/ \E n \in PeerIds : GraceTimeout(n) /\ UNCHANGED <<twinVars, mediaVars, syncVars>>

SpecGarbage == GarbageStart /\ [][GarbageNext]_vars

\* A room after all handshakes: peer 1 created the room and has the highest
\* priority, the others joined one after the other, each connecting to every
\* peer already there; every peer holds leaderId 1.
RECURSIVE IdsInOrder(_)
IdsInOrder(ids) ==
  IF ids = {} THEN <<>>
  ELSE LET least == CHOOSE x \in ids : \A y \in ids : x <= y
       IN  <<least>> \o IdsInOrder(ids \ {least})

Established(members) ==
  /\ room = members
  /\ localPriority = [n \in PeerIds |-> IF n = 1 THEN MaxPrio ELSE 1]
  /\ peers = [n \in PeerIds |->
       IF n \in members
       THEN LET others == IdsInOrder(members \ {n})
            IN  [i \in 1..Len(others) |->
                   [id |-> others[i], priority |-> localPriority[others[i]],
                    status |-> "connected", connection |-> 1]]
       ELSE <<>>]
  /\ leaderId = [n \in PeerIds |-> IF n \in members THEN 1 ELSE Null]
  /\ linkGen = [p \in Pairs |-> IF {p[1], p[2]} \subseteq members THEN 1 ELSE 0]
  /\ linkOpen = [p \in Pairs |-> {p[1], p[2]} \subseteq members]
  /\ MeshIdle

\* ... and on every link the handshake envelopes keep going back and forth
RelayInit ==
  /\ Established(PeerIds)
  /\ net = [l \in Links |-> <<Envelope("user_info", l[1], 1, localPriority[l[1]])>>]

BroadcastTypes == {"sync", "chat"}

RelayNext ==
  \/ \E n \in PeerIds, t \in BroadcastTypes :
       Broadcast(n, t) /\ UNCHANGED <<twinVars, mediaVars, syncVars>>
  \/ \E r, s \in PeerIds : r # s /\ Deliver(r, s) /\ UNCHANGED <<twinVars, mediaVars, syncVars>>

RelayStart == RelayInit /\ TwinIdle /\ MediaIdle /\ NoBudget /\ SyncIdle

SpecRelay == RelayStart /\ [][RelayNext]_vars

\* A room of three after all handshakes in which the priorities differ and
\* every peer names the peer of highest priority as leader (the creator's
\* (peer 1's) registry holds the guests in the order they joined).
FailoverInit ==
  /\ room = PeerIds
  /\ localPriority \in {f \in [PeerIds -> 1..(MaxPrio + 1)] :
                           \A a, b \in PeerIds : a # b => f[a] # f[b]}
  /\ peers = [n \in PeerIds |->
       LET others == IdsInOrder(PeerIds \ {n})
       IN  [i \in 1..Len(others) |->
              [id |-> others[i], priority |-> localPriority[others[i]],
               status |-> "connected", connection |-> 1]]]
  /\ leaderId = [n \in PeerIds |->
       CHOOSE l \in PeerIds : \A q \in PeerIds : localPriority[q] <= localPriority[l]]
  /\ linkGen = [p \in Pairs |-> 1]
  /\ linkOpen = [p \in Pairs |-> TRUE]
  /\ net = [l \in Links |-> <<>>]
  /\ MeshIdle

FailoverNext ==
  \/ \E a, b \in PeerIds : Close(a, b) /\ UNCHANGED <<twinVars, mediaVars, syncVars>>
  \/ \E ev \in closeEv : HandlePeerDisconnect(ev) /\ UNCHANGED <<twinVars, mediaVars, syncVars>>
  \/ \E n \in PeerIds : GraceTimeout(n) /\ UNCHANGED <<twinVars, mediaVars, syncVars>>
  \/ \E r, s \in PeerIds : r # s /\ Deliver(r, s) /\ UNCHANGED <<twinVars, mediaVars, syncVars>>

FailoverStart == FailoverInit /\ TwinIdle /\ MediaIdle /\ NoBudget /\ SyncIdle

SpecFailover == FailoverStart /\ [][FailoverNext]_vars

\* An established room of three, all linked and silent: a peer broadcasts
\* while links close.
SendStart ==
  /\ Established(PeerIds)
  /\ net = [l \in Links |-> <<>>]
  /\ TwinIdle /\ MediaIdle /\ NoBudget /\ SyncIdle

SendNext ==
  \/ \E n \in PeerIds, t \in BroadcastTypes :
       Broadcast(n, t) /\ UNCHANGED <<twinVars, mediaVars, syncVars>>
  \/ \E r, s \in PeerIds : r # s /\ Deliver(r, s) /\ UNCHANGED <<twinVars, mediaVars, syncVars>>
  \/ \E a, b \in PeerIds :
       closes < LeaveCloses /\ Close(a, b) /\ UNCHANGED <<twinVars, mediaVars, syncVars>>
  \/ \E ev \in closeEv : HandlePeerDisconnect(ev) /\ UNCHANGED <<twinVars, mediaVars, syncVars>>

SpecSend == SendStart /\ [][SendNext]_vars

\* Two instances of peer 1 that register the same remote peers, each in its
\* own order (registerPeer as called by handlePeerData for a user_info).
TwinIds == {1, 2}

ElectInit ==
  /\ twinPrio \in [PeerIds -> Priorities]
  /\ twin = [r \in TwinIds |-> [peers |-> <<>>, leaderId |-> Null]]

TwinRegister(r, q) ==
  /\ q # 1
  /\ ~HasPeer(twin[r].peers, q)
  /\ LET reg == RegisterPeer(1, twinPrio[1], twin[r].peers, twin[r].leaderId,
                             1, q, twinPrio[q])
     IN  twin' = [twin EXCEPT ![r] = [peers |-> reg.peers, leaderId |-> reg.leaderId]]
  /\ UNCHANGED twinPrio

ElectNext ==
  \E r \in TwinIds, q \in PeerIds :
     TwinRegister(r, q) /\ UNCHANGED <<meshVars, mediaVars, syncVars>>

ElectStart == ElectInit /\ MeshOff /\ MediaIdle /\ NoBudget /\ SyncIdle

SpecElect == ElectStart /\ [][ElectNext]_vars

LocalFiles == {[filename |-> "movie.mp4", fileSize |-> 2],
               [filename |-> "movie.mp4", fileSize |-> 1]}

TorrentFiles == {[filename |-> "other.mp4", fileSize |-> 2]}

\* An established room of two peers, before any media was loaded.  The
\* handshake envelopes on the links never reach MediaController and are left
\* out.
ReadyInit ==
  /\ Established({1, 2})
  /\ net = [l \in Links |-> <<>>]
  /\ MediaIdle
  /\ budget = [loads |-> ReadyLoads, confirms |-> ReadyConfirms, votes |-> 0]

ReadyNext ==
  \/ \E n \in room, f \in LocalFiles : LoadLocalFile(n, f) /\ UNCHANGED <<twinVars, syncVars>>
  \/ \E n \in room, f \in TorrentFiles : LoadTorrent(n, f) /\ UNCHANGED <<twinVars, syncVars>>
  \/ \E n \in room, f \in Files : ConfirmLocalFileUploaded(n, f) /\ UNCHANGED <<twinVars, syncVars>>
  \/ \E n \in room : VoteTimeout(n) /\ UNCHANGED <<twinVars, syncVars>>
  \/ \E r, s \in room : r # s /\ DeliverMedia(r, s) /\ UNCHANGED <<twinVars, syncVars>>

ReadyStart == ReadyInit /\ TwinIdle /\ SyncIdle

SpecReady == ReadyStart /\ [][ReadyNext]_vars

\* The same room after peer 1 loaded a torrent and peer 2 received the
\* media_loaded envelope: both hold the same current media.
VoteInit ==
  /\ Established({1, 2})
  /\ net = [l \in Links |-> <<>>]
  /\ mc = [n \in PeerIds |->
       IF n \in {1, 2}
       THEN [NoController EXCEPT !.currentMedia =
               [type |-> "torrent", filename |-> "other.mp4", fileSize |-> 2,
                loadedBy |-> 1]]
       ELSE NoController]
  /\ voteTimers = [n \in PeerIds |-> <<>>]
  /\ nextRequestId = 1
  /\ castVotes = {}
  /\ finalized = [n \in PeerIds |-> NotFinalized]
  /\ lastConfirm = [n \in PeerIds |-> NoConfirm]
  /\ mediaReady = [n \in PeerIds |-> IF n \in {1, 2} THEN 1 ELSE 0]
  /\ emitted = NoEvents
  /\ budget = [loads |-> MaxLoads, confirms |-> MaxConfirms, votes |-> MaxVotes]

VoteNext ==
  \/ \E n \in room, f \in LocalFiles : LoadLocalFile(n, f) /\ UNCHANGED <<twinVars, syncVars>>
  \/ \E n \in room, f \in TorrentFiles : LoadTorrent(n, f) /\ UNCHANGED <<twinVars, syncVars>>
  \/ \E n \in room, f \in Files : ConfirmLocalFileUploaded(n, f) /\ UNCHANGED <<twinVars, syncVars>>
  \/ \E n \in room, v \in BOOLEAN : SubmitVote(n, v) /\ UNCHANGED <<twinVars, syncVars>>
  \/ \E n \in room : VoteTimeout(n) /\ UNCHANGED <<twinVars, syncVars>>
  \/ \E r, s \in room : r # s /\ DeliverMedia(r, s) /\ UNCHANGED <<twinVars, syncVars>>

VoteStart == VoteInit /\ TwinIdle /\ SyncIdle

SpecVote == VoteStart /\ [][VoteNext]_vars

\* An established room of three, all linked, before any media was loaded:
\* the peers load files, the first load at a peer sets its media, a later one
\* starts a vote.
ProposeInit ==
  /\ Established(PeerIds)
  /\ net = [l \in Links |-> <<>>]
  /\ MediaIdle
  /\ budget = [loads |-> MaxLoads, confirms |-> 0, votes |-> 0]

ProposeStart == ProposeInit /\ TwinIdle /\ SyncIdle

ProposeNext ==
  \/ \E n \in room, f \in LocalFiles : LoadLocalFile(n, f) /\ UNCHANGED <<twinVars, syncVars>>
  \/ \E n \in room, f \in TorrentFiles : LoadTorrent(n, f) /\ UNCHANGED <<twinVars, syncVars>>
  \/ \E n \in room : VoteTimeout(n) /\ UNCHANGED <<twinVars, syncVars>>
  \/ \E r, s \in room : r # s /\ DeliverMedia(r, s) /\ UNCHANGED <<twinVars, syncVars>>

SpecPropose == ProposeStart /\ [][ProposeNext]_vars

\* A room of three, all linked, that streams other.mp4; the creator proposes
\* another torrent, the peers vote, and a link may close while they do.
QuorumInit ==
  /\ Established(PeerIds)
  /\ net = [l \in Links |-> <<>>]
  /\ mc = [n \in PeerIds |->
       [NoController EXCEPT !.currentMedia =
          [type |-> "torrent", filename |-> "other.mp4", fileSize |-> 2, loadedBy |-> 1]]]
  /\ voteTimers = [n \in PeerIds |-> <<>>]
  /\ nextRequestId = 1
  /\ castVotes = {}
  /\ finalized = [n \in PeerIds |-> NotFinalized]
  /\ lastConfirm = [n \in PeerIds |-> NoConfirm]
  /\ mediaReady = [n \in PeerIds |-> 1]
  /\ emitted = NoEvents
  /\ budget = [loads |-> 1, confirms |-> 0, votes |-> MaxVotes]

QuorumStart == QuorumInit /\ TwinIdle /\ SyncIdle

QuorumNext ==
  \/ LoadTorrent(1, [filename |-> "movie.mp4", fileSize |-> 2])
       /\ UNCHANGED <<twinVars, syncVars>>
  \/ \E n \in room, v \in BOOLEAN : SubmitVote(n, v) /\ UNCHANGED <<twinVars, syncVars>>
  \/ \E n \in room : VoteTimeout(n) /\ UNCHANGED <<twinVars, syncVars>>
  \/ \E r, s \in room : r # s /\ DeliverMedia(r, s) /\ UNCHANGED <<twinVars, syncVars>>
  \/ \E a, b \in room :
       closes < LeaveCloses /\ Close(a, b) /\ UNCHANGED <<twinVars, mediaVars, syncVars>>
  \/ \E ev \in closeEv : HandlePeerDisconnect(ev) /\ UNCHANGED <<twinVars, mediaVars, syncVars>>

SpecQuorum == QuorumStart /\ [][QuorumNext]_vars

\* A room of three peers right after peer 1 called loadLocalFile for
\* movie.mp4 of size 2: it tracks the readiness of all three, and the
\* media_loaded envelopes are on their way to peers 2 and 3.
TrioMedia == [type |-> "local", filename |-> "movie.mp4", fileSize |-> 2, loadedBy |-> 1]

TrioInit ==
  /\ Established(PeerIds)
  /\ net = [l \in Links |->
       IF l[1] = 1
       THEN <<MediaEnvelope("media_loaded", 1, "local",
                            [filename |-> "movie.mp4", fileSize |-> 2], 0, FALSE)>>
       ELSE <<>>]
  /\ mc = [n \in PeerIds |->
       IF n = 1
       THEN [NoController EXCEPT
               !.currentMedia = TrioMedia,
               !.pendingFileUploads = InitializeFileCoordination(1, TrioMedia, {2, 3})]
       ELSE NoController]
  /\ voteTimers = [n \in PeerIds |-> <<>>]
  /\ nextRequestId = 1
  /\ castVotes = {}
  /\ finalized = [n \in PeerIds |-> NotFinalized]
  /\ lastConfirm = [n \in PeerIds |-> NoConfirm]
  /\ mediaReady = [n \in PeerIds |-> 0]
  /\ emitted = Emit(1, {})
  /\ budget = [loads |-> 0, confirms |-> TrioConfirms, votes |-> 0]

TrioStart == TrioInit /\ TwinIdle /\ SyncIdle

TrioNext ==
  \/ \E n \in room, f \in Files : ConfirmLocalFileUploaded(n, f) /\ UNCHANGED <<twinVars, syncVars>>
  \/ \E r, s \in room : r # s /\ DeliverMedia(r, s) /\ UNCHANGED <<twinVars, syncVars>>

SpecTrio == TrioStart /\ [][TrioNext]_vars

\* Peer 2 follows the leader peer 1 and plays (or has paused) a video at any
\* position up to MaxDrift before or after the position of the next sync
\* sample; it may have applied another sample less than 200 ms ago.
SyncPosition == MaxDrift + 2 * MaxLatency

SyncSamples ==
  [position : {SyncPosition}, isPlaying : BOOLEAN, latency : {0, MaxLatency}]

DriftInit ==
  /\ Established({1, 2})
  /\ net = [l \in Links |-> <<>>]
  /\ MediaIdle
  /\ NoBudget
  /\ lastSync = NoSync
  /\ originated = NoneOriginated
  /\ bufferLog = NoBufferLog
  /\ \E t \in 0..(2 * MaxDrift + 4 * MaxLatency), p, g \in BOOLEAN :
       sm = [n \in PeerIds |->
               IF n = 2
               THEN [NoSyncManager EXCEPT !.constructed = TRUE, !.video = TRUE, !.paused = p,
                                          !.currentTime = t, !.recentSync = g]
               ELSE NoSyncManager]

DriftStart == DriftInit /\ TwinIdle

DriftNext ==
  \E m \in SyncSamples : ApplySyncStep(2, m) /\ UNCHANGED <<meshVars, twinVars, mediaVars>>

SpecDrift == DriftStart /\ [][DriftNext]_vars

\* The room of Spec while its links stay up; the peers start playback at any
\* moment, before or after the handshakes.
SyncStart == Init

SyncNext ==
  \/ \E a, b \in PeerIds : Connect(a, b) /\ UNCHANGED <<twinVars, mediaVars, syncVars>>
  \/ \E r, s \in PeerIds : r # s /\ DeliverSync(r, s) /\ UNCHANGED <<twinVars, mediaVars>>
  \/ \E n \in PeerIds : StartWatching(n) /\ UNCHANGED <<twinVars, mediaVars>>
  \/ \E n \in PeerIds : SyncTick(n) /\ UNCHANGED <<twinVars, mediaVars>>
  \/ \E n \in PeerIds : Elapse(n) /\ UNCHANGED <<twinVars, mediaVars>>

SpecSync == SyncStart /\ [][SyncNext]_vars

\* Peer 2 has joined the room of peer 1, which has the higher priority: both
\* have registered each other, peer 2 has elected peer 1 and its
\* leader_election envelope is on its way to peer 1.  Peer 3, whose priority
\* equals that of peer 1, is about to join; peers 1 and 2 start watching; no
\* link closes.
HandoffInit ==
  /\ room = PeerIds
  /\ localPriority = [n \in PeerIds |-> IF n = 2 THEN 1 ELSE MaxPrio]
  /\ peers = [n \in PeerIds |->
       IF n = 3 THEN <<>>
       ELSE <<[id |-> 3 - n, priority |-> localPriority[3 - n],
               status |-> "connected", connection |-> 1]>>]
  /\ leaderId = [n \in PeerIds |-> IF n = 3 THEN Null ELSE 1]
  /\ linkGen = [p \in Pairs |-> IF p = Pair(1, 2) THEN 1 ELSE 0]
  /\ linkOpen = [p \in Pairs |-> p = Pair(1, 2)]
  /\ net = [l \in Links |->
       IF l = <<2, 1>> THEN <<Envelope("leader_election", 2, 1, 0)>> ELSE <<>>]
  /\ MeshIdle

HandoffStart == HandoffInit /\ TwinIdle /\ MediaIdle /\ NoBudget /\ SyncIdle

HandoffNext ==
  \/ \E a \in {1, 2} : Connect(a, 3) /\ UNCHANGED <<twinVars, mediaVars, syncVars>>
  \/ \E r, s \in PeerIds : r # s /\ DeliverSync(r, s) /\ UNCHANGED <<twinVars, mediaVars>>
  \/ \E n \in {1, 2} : StartWatching(n) /\ UNCHANGED <<twinVars, mediaVars>>

SpecHandoff == HandoffStart /\ [][HandoffNext]_vars

\* An established room of two whose peers both watch: each SyncManager has
\* its video element, the players are paused, and the leader runs its loop.
Watching ==
  [n \in PeerIds |->
     IF n \in room
     THEN StartSyncLoop([NoSyncManager EXCEPT !.constructed = TRUE, !.video = TRUE],
                        leaderId[n] = n)
     ELSE NoSyncManager]

BufferStart ==
  /\ Established({1, 2})
  /\ net = [l \in Links |-> <<>>]
  /\ TwinIdle /\ MediaIdle /\ NoBudget
  /\ sm = Watching
  /\ lastSync = NoSync
  /\ originated = NoneOriginated
  /\ bufferLog = NoBufferLog

BufferNext ==
  \/ \E n \in PeerIds, b \in BOOLEAN : LocalBuffering(n, b) /\ UNCHANGED <<twinVars, mediaVars>>
  \/ \E n \in PeerIds : LocalPlay(n) /\ UNCHANGED <<twinVars, mediaVars>>
  \/ \E n \in PeerIds : LocalPause(n) /\ UNCHANGED <<twinVars, mediaVars>>
  \/ \E r, s \in PeerIds : r # s /\ DeliverBuffer(r, s) /\ UNCHANGED <<twinVars, mediaVars>>

SpecBuffer == BufferStart /\ [][BufferNext]_vars

\* The room of SpecVote with both peers watching; they propose media changes,
\* their links close and are restored, and they leave the room at any moment.
LeaveStart ==
  /\ VoteInit
  /\ TwinIdle
  /\ sm = Watching
  /\ lastSync = NoSync
  /\ originated = NoneOriginated
  /\ bufferLog = NoBufferLog

LeaveNext ==
  \/ \E n \in room, f \in LocalFiles : LoadLocalFile(n, f) /\ UNCHANGED <<twinVars, syncVars>>
  \/ \E n \in PeerIds : VoteTimeout(n) /\ UNCHANGED <<twinVars, syncVars>>
  \/ \E r, s \in room : r # s /\ DeliverMedia(r, s) /\ UNCHANGED <<twinVars, syncVars>>
  \/ \E a, b \in room :
       closes < LeaveCloses /\ Close(a, b) /\ UNCHANGED <<twinVars, mediaVars, syncVars>>
  \/ \E ev \in closeEv : HandlePeerDisconnect(ev) /\ UNCHANGED <<twinVars, mediaVars, syncVars>>
  \/ \E n \in PeerIds : GraceTimeout(n) /\ UNCHANGED <<twinVars, mediaVars, syncVars>>
  \/ \E n \in PeerIds : Cleanup(n) /\ UNCHANGED <<twinVars, mediaVars>>

SpecLeave == LeaveStart /\ [][LeaveNext]_vars

\* Peer 1 in a room of NumVoters peers holds a VoteRequest of peer 2 with the
\* votes received so far (not yet one per peer); at most one more vote is in
\* flight to it.  The request is finalized by that last vote or by its timeout.
Voters == 1..NumVoters

PartialVotes == UNION {[d -> BOOLEAN] : d \in (SUBSET Voters) \ {Voters}}

\* the media of the room before the proposal: a torrent, or a local file
\* whose readiness peer 1 tracks
TallyMedia ==
  {[type |-> t, filename |-> "movie.mp4", fileSize |-> 2, loadedBy |-> 1] :
     t \in {"torrent", "local"}}

TallyInit ==
  /\ room = Voters
  /\ localPriority = [n \in PeerIds |-> 1]
  /\ peers = [n \in PeerIds |->
       IF n = 1
       THEN [i \in 1..(NumVoters - 1) |->
               [id |-> i + 1, priority |-> 1, status |-> "connected", connection |-> 1]]
       ELSE <<>>]
  /\ leaderId = [n \in PeerIds |-> 1]
  /\ linkGen = [p \in Pairs |-> 1]
  /\ linkOpen = [p \in Pairs |-> TRUE]
  /\ MeshIdle
  /\ \E votes \in PartialVotes, t \in {"local", "torrent"}, cur \in TallyMedia :
       /\ mc = [n \in PeerIds |->
            IF n = 1
            THEN [currentMedia |-> cur,
                  pendingFileUploads |->
                    IF cur.type = "local"
                    THEN InitializeFileCoordination(1, cur, Voters \ {1})
                    ELSE <<>>,
                  activeVoteRequest |->
                    [requestId |-> 1, mediaType |-> t, filename |-> "other.mp4",
                     fileSize |-> 2, requestedBy |-> 2, votes |-> votes]]
            ELSE NoController]
       /\ \E last \in {{}} \cup {{<<s, v>>} : s \in (Voters \ (DOMAIN votes \cup {1})),
                                              v \in BOOLEAN} :
            net = [l \in {x \in Voters \X Voters : x[1] # x[2]} |->
                     IF l[2] = 1 /\ \E e \in last : e[1] = l[1]
                     THEN <<MediaEnvelope("vote_response", l[1], "none", NoFile, 1,
                                          (CHOOSE e \in last : TRUE)[2])>>
                     ELSE <<>>]
  /\ voteTimers = [n \in PeerIds |-> IF n = 1 THEN <<1>> ELSE <<>>]
  /\ nextRequestId = 1
  /\ castVotes = {}
  /\ finalized = [n \in PeerIds |-> NotFinalized]
  /\ lastConfirm = [n \in PeerIds |-> NoConfirm]
  /\ mediaReady = [n \in PeerIds |->
       IF n = 1 /\ mc[1].currentMedia.type = "torrent" THEN 1 ELSE 0]
  /\ emitted = NoEvents
  /\ NoBudget

TallyNext ==
  \/ VoteTimeout(1) /\ UNCHANGED <<twinVars, syncVars>>
  \/ \E s \in Voters : s # 1 /\ DeliverMedia(1, s) /\ UNCHANGED <<twinVars, syncVars>>

TallyStart == TallyInit /\ TwinIdle /\ SyncIdle

SpecTally == TallyStart /\ [][TallyNext]_vars

\* Peer 2 joined the room of peer 1 and peer 3 has so far connected to peer 2
\* only: peers 1 and 3 have no link and no record of each other.  All three
\* watch; peer 1 leads and sends sync samples.
StrangerInit ==
  /\ room = PeerIds
  /\ localPriority = [n \in PeerIds |-> IF n = 1 THEN MaxPrio ELSE 1]
  /\ peers = [n \in PeerIds |->
       LET others == IF n = 2 THEN <<1, 3>> ELSE <<2>>
       IN  [i \in 1..Len(others) |->
              [id |-> others[i], priority |-> localPriority[others[i]],
               status |-> "connected", connection |-> 1]]]
  /\ leaderId = [n \in PeerIds |-> 1]
  /\ linkGen = [p \in Pairs |-> IF p = <<1, 3>> THEN 0 ELSE 1]
  /\ linkOpen = [p \in Pairs |-> p # <<1, 3>>]
  /\ net = [l \in Links |-> <<>>]
  /\ MeshIdle
  /\ TwinIdle /\ MediaIdle /\ NoBudget
  /\ sm = Watching
  /\ lastSync = NoSync
  /\ originated = NoneOriginated
  /\ bufferLog = NoBufferLog

StrangerNext ==
  \/ \E n \in PeerIds : SyncTick(n) /\ UNCHANGED <<twinVars, mediaVars>>
  \/ \E r, s \in PeerIds : r # s /\ DeliverSync(r, s) /\ UNCHANGED <<twinVars, mediaVars>>
  \/ \E n \in PeerIds : Elapse(n) /\ UNCHANGED <<twinVars, mediaVars>>

SpecStranger == StrangerInit /\ [][StrangerNext]_vars

\* An established room of two peers without media; one peer loads a local
\* file and the link between the peers may close for good.
MembersInit ==
  /\ ReadyInit
  /\ TwinIdle /\ SyncIdle

MembersNext ==
  \/ \E n \in room, f \in LocalFiles : LoadLocalFile(n, f) /\ UNCHANGED <<twinVars, syncVars>>
  \/ \E n \in room, f \in Files : ConfirmLocalFileUploaded(n, f) /\ UNCHANGED <<twinVars, syncVars>>
  \/ \E r, s \in room : r # s /\ DeliverMedia(r, s) /\ UNCHANGED <<twinVars, syncVars>>
  \/ \E a, b \in room :
       closes < LeaveCloses /\ Close(a, b) /\ UNCHANGED <<twinVars, mediaVars, syncVars>>
  \/ \E ev \in closeEv : HandlePeerDisconnect(ev) /\ UNCHANGED <<twinVars, mediaVars, syncVars>>
  \/ \E n \in PeerIds : GraceTimeout(n) /\ UNCHANGED <<twinVars, mediaVars, syncVars>>

SpecMembers == MembersInit /\ [][MembersNext]_vars


\* The two peers of Init connect; a link closes at most LeaveCloses times.
\* Every data event received on a link is handled (the event loop runs the
\* 'data' handler of each envelope that arrived), hence the weak fairness of
\* Deliver.
HandshakeStart == Init

DeliverStep ==
  \E r, s \in PeerIds : r # s /\ Deliver(r, s) /\ UNCHANGED <<twinVars, mediaVars, syncVars>>

HandshakeNext ==
  \/ \E a, b \in PeerIds : Connect(a, b) /\ UNCHANGED <<twinVars, mediaVars, syncVars>>
  \/ DeliverStep
  \/ \E a, b \in PeerIds :
       closes < LeaveCloses /\ Close(a, b) /\ UNCHANGED <<twinVars, mediaVars, syncVars>>
  \/ \E ev \in closeEv : HandlePeerDisconnect(ev) /\ UNCHANGED <<twinVars, mediaVars, syncVars>>
  \/ \E n \in PeerIds : GraceTimeout(n) /\ UNCHANGED <<twinVars, mediaVars, syncVars>>

SpecHandshake == HandshakeStart /\ [][HandshakeNext]_vars /\ WF_vars(DeliverStep)


\* The room of VoteInit, whose peers start watching (the application then
\* constructs the SyncManager) and propose other media at any time.
ListenersInit ==
  /\ VoteInit
  /\ TwinIdle /\ SyncIdle

ListenersNext ==
  \/ \E n \in room, f \in LocalFiles : LoadLocalFile(n, f) /\ UNCHANGED <<twinVars, syncVars>>
  \/ \E n \in room : StartWatching(n) /\ UNCHANGED <<twinVars, mediaVars>>
  \/ \E n \in room : VoteTimeout(n) /\ UNCHANGED <<twinVars, syncVars>>
  \/ \E r, s \in room :
       /\ r # s /\ net[<<s, r>>] # <<>>
       /\ Head(net[<<s, r>>]).type \in
            {"media_loaded", "file_uploaded", "media_change_request", "vote_response"}
       /\ DeliverMedia(r, s) /\ UNCHANGED <<twinVars, syncVars>>
  \/ \E r, s \in room :
       /\ r # s /\ net[<<s, r>>] # <<>>
       /\ Head(net[<<s, r>>]).type \notin
            {"media_loaded", "file_uploaded", "media_change_request", "vote_response"}
       /\ DeliverSync(r, s) /\ UNCHANGED <<twinVars, mediaVars>>

SpecListeners == ListenersInit /\ [][ListenersNext]_vars

\* The watching room of SpecBuffer, whose link may close for good: the
\* reconnection timeout then removes the peer.  electLeader in the timeout
\* callback calls the leader-change listener of the SyncManager.
GraceTimeoutWatching(n) ==
  /\ GraceTimeout(n)
  /\ sm' = IF leaderId'[n] # leaderId[n]
           THEN [sm EXCEPT ![n] = OnLeaderChange(@, n, leaderId'[n])]
           ELSE sm
  /\ UNCHANGED <<lastSync, originated, bufferLog>>

DepartNext ==
  \/ \E n \in PeerIds, b \in BOOLEAN : LocalBuffering(n, b) /\ UNCHANGED <<twinVars, mediaVars>>
  \/ \E n \in PeerIds : LocalPlay(n) /\ UNCHANGED <<twinVars, mediaVars>>
  \/ \E r, s \in PeerIds : r # s /\ DeliverBuffer(r, s) /\ UNCHANGED <<twinVars, mediaVars>>
  \/ \E a, b \in room :
       closes < LeaveCloses /\ Close(a, b) /\ UNCHANGED <<twinVars, mediaVars, syncVars>>
  \/ \E ev \in closeEv : HandlePeerDisconnect(ev) /\ UNCHANGED <<twinVars, mediaVars, syncVars>>
  \/ \E n \in PeerIds : GraceTimeoutWatching(n) /\ UNCHANGED <<twinVars, mediaVars>>

SpecDepart == BufferStart /\ [][DepartNext]_vars

\* ------------------------------------------------------------ claims

InFlight == {l \in DOMAIN net : net[l] # <<>>}

\* every peer of the room has registered every other one as connected over
\* the open link of the pair, and no 'close' event is waiting
FullMesh ==
  /\ closeEv = {}
  /\ \A a \in room : \A b \in room \ {a} :
       /\ linkOpen[Pair(a, b)]
       /\ HasPeer(peers[a], b)
       /\ peers[a][PeerIndex(peers[a], b)].status = "connected"
       /\ peers[a][PeerIndex(peers[a], b)].connection = linkGen[Pair(a, b)]

\* no envelope at all is in flight
NothingInFlight == InFlight = {}

IsMaxPriority(n) == \A q \in room : localPriority[q] <= localPriority[n]

SingleLeaderByPriority ==
  /\ \A a, b \in room : leaderId[a] = leaderId[b]
  /\ \A a \in room : leaderId[a] \in room /\ IsMaxPriority(leaderId[a])
  /\ Cardinality({a \in room : leaderId[a] = a}) <= 1

\* every envelope in flight is a handshake envelope that carries the leaderId
\* its sender and its receiver both hold already: delivering it changes
\* neither registry nor leaderId, and its answer is again such an envelope
EchoOnly ==
  \A l \in DOMAIN net : \A i \in 1..Len(net[l]) :
    /\ net[l][i].type = "user_info"
    /\ net[l][i].leaderId = leaderId[l[1]]
    /\ net[l][i].leaderId = leaderId[l[2]]

\* C2 (as claimed): in every quiescent state of a full mesh all peers hold the
\* same leaderId, it names a peer of highest priority, and at most one peer
\* considers itself leader.  Every user_info is answered by a user_info, so
\* once two peers have met a handshake envelope is always in flight; the
\* quiescent states are those in which nothing but an echo that changes
\* nothing is in flight.
C2_SingleLeaderQuiescent == (FullMesh /\ EchoOnly) => SingleLeaderByPriority

\* a full mesh is never without an envelope in flight
C2_NeverSilent == ~(FullMesh /\ NothingInFlight)

\* C5 (as claimed): a grace timer whose close was followed by a fresh
\* handshake for the same peer id never removes the peer (no peer-left event
\* is fired for that close).
C5_NoPeerLeftAfterRestore ==
  \A n \in PeerIds :
    (lastExpiry[n].peerId # Null /\ lastExpiry[n].handshake) => ~lastExpiry[n].removed

\* C6: when a grace timer fires and no handshake for its peer arrived since
\* the close that armed it, the PeerRecord is gone and exactly one peer-left
\* event has fired for that peer since that close.
C6_GraceExpiryExactlyOnce ==
  \A n \in PeerIds :
    (lastExpiry[n].peerId # Null /\ ~lastExpiry[n].handshake) =>
      (~lastExpiry[n].present /\ lastExpiry[n].leftSince = 1)

\* C6 witness: a grace timer expired without a handshake and removed the peer
C6_Witness ==
  \E n \in PeerIds :
    /\ lastExpiry[n].peerId # Null
    /\ ~lastExpiry[n].handshake
    /\ lastExpiry[n].removed
    /\ ~lastExpiry[n].present
    /\ lastExpiry[n].leftSince = 1

\* C3: a relay never sends an envelope to the peer whose id is its senderId.
C3_RelayNeverToSource == \A e \in relayLog : e.to # e.senderId

\* C3 witness: a peer relayed an envelope that reached it over the link of a
\* peer other than the original sender
C3_Witness == \E e \in relayLog : e.via # e.senderId

\* C4 (as claimed): after one broadcast every receiving peer forwards the
\* envelope at most once.
C4_RelayOnce == \A n \in PeerIds : relayCount[n] <= 1

\* C1 (as claimed): two instances of the same peer that registered the same
\* peers with the same priorities, in whatever order, compute the same leader.
C1_ElectionOrderIndependent ==
  (/\ twin # <<>>
   /\ {twin[1].peers[i].id : i \in 1..Len(twin[1].peers)} =
      {twin[2].peers[i].id : i \in 1..Len(twin[2].peers)})
  => twin[1].leaderId = twin[2].leaderId

YesVotes(votes) == {p \in DOMAIN votes : votes[p]}
NoVotes(votes) == {p \in DOMAIN votes : ~votes[p]}

\* C7: a finalized VoteRequest was accepted if and only if strictly more yes
\* than no votes were recorded; the new media is current exactly then.
C7_VoteDecisionRule ==
  \A n \in PeerIds :
    finalized[n].requestId # 0 =>
      /\ finalized[n].accepted <=>
           Cardinality(YesVotes(finalized[n].votes)) > Cardinality(NoVotes(finalized[n].votes))
      /\ ~finalized[n].accepted => finalized[n].media.filename = "movie.mp4"
      /\ finalized[n].accepted => finalized[n].media.filename = "other.mp4"

\* C7 witness: 3 yes / 3 no was finalized and rejected
C7_Witness ==
  /\ finalized[1].requestId # 0
  /\ Cardinality(YesVotes(finalized[1].votes)) = 3
  /\ Cardinality(NoVotes(finalized[1].votes)) = 3
  /\ ~finalized[1].accepted

\* C8 (as claimed): for one change proposal, when every peer has finalized it
\* with every vote cast for it already cast and nothing of it still in flight
\* to that peer, all peers recorded the same votes, reached the same decision
\* and hold the same resulting MediaState.
C8_VoteConvergence ==
  (/\ nextRequestId = 2
   /\ \A n \in room :
        /\ finalized[n].requestId = 1
        /\ ~finalized[n].inFlight
        /\ finalized[n].castSeen = castVotes)
  => \A a, b \in room :
       /\ finalized[a].votes = finalized[b].votes
       /\ finalized[a].accepted = finalized[b].accepted
       /\ finalized[a].media = finalized[b].media

\* C9 (as claimed): a VoteRequest that is outstanding at a peer before and
\* after a step is the same request, with the same proposed media.
C9_FirstProposalWins ==
  [][\A n \in PeerIds :
       (mc[n].activeVoteRequest # NoVoteRequest /\ mc'[n].activeVoteRequest # NoVoteRequest)
       => /\ mc'[n].activeVoteRequest.requestId = mc[n].activeVoteRequest.requestId
          /\ mc'[n].activeVoteRequest.mediaType = mc[n].activeVoteRequest.mediaType
          /\ mc'[n].activeVoteRequest.filename = mc[n].activeVoteRequest.filename
          /\ mc'[n].activeVoteRequest.fileSize = mc[n].activeVoteRequest.fileSize
          /\ mc'[n].activeVoteRequest.requestedBy = mc[n].activeVoteRequest.requestedBy]_vars

\* C10: a readiness confirmation whose filename or size differs from the
\* current local media leaves the FileReadiness map of the peer unchanged.
C10_MismatchNeverCounts ==
  \A n \in PeerIds :
    (lastConfirm[n].peer # Null /\ ~(lastConfirm[n].sameName /\ lastConfirm[n].sameSize))
    => ~lastConfirm[n].changed

\* C10 witness: a file-uploaded envelope with the right name and the wrong
\* size was received for a peer that is tracked and not ready
C10_Witness ==
  \E n \in PeerIds :
    /\ lastConfirm[n].peer \notin {Null, n}
    /\ lastConfirm[n].sameName
    /\ ~lastConfirm[n].sameSize
    /\ lastConfirm[n].peer \in DOMAIN mc[n].pendingFileUploads
    /\ ~lastConfirm[n].hasFile

\* C11 (as claimed): while a local file is the current media of a peer, the
\* media-ready event has fired at most once at that peer since that media
\* was set.
C11_MediaReadyOnce ==
  \A n \in PeerIds : mc[n].currentMedia.type = "local" => mediaReady[n] <= 1

\* C12: while a local file is current and media-ready has fired for it at a
\* peer, every peer tracked in the FileReadiness map of that peer has hasFile
\* true: the event does not fire while one of them is still missing.
C12_NoEarlyMediaReady ==
  \A n \in PeerIds :
    (mc[n].currentMedia.type = "local" /\ mediaReady[n] > 0)
    => \A q \in DOMAIN mc[n].pendingFileUploads : mc[n].pendingFileUploads[q].hasFile

\* C12 witness: media-ready fires at the loading peer 1 of a room of three on
\* the confirmation of peer 3, the one of peer 2 having been received before
C12_Witness ==
  /\ emitted = Emit(1, {"media-ready"})
  /\ lastConfirm[1].peer = 3
  /\ lastConfirm[1].changed
  /\ mediaReady[1] = 1
  /\ DOMAIN mc[1].pendingFileUploads = {1, 2, 3}
  /\ mc[1].pendingFileUploads[2].hasFile

NudgedBy(n, percent) ==
  /\ sm[n].playbackRate = (IF lastSync.drift > 0 THEN 100 - percent ELSE 100 + percent)
  /\ sm[n].currentTime = lastSync.expected + lastSync.drift

\* C13 (as claimed): after applySync with drift d between the local and the
\* expected position: |d| < 300 leaves the position and sets rate 1.0;
\* 300 <= |d| < 700 sets the 3% nudge; 700 <= |d| < 2000 sets the 8% nudge;
\* |d| >= 2000 seeks to the expected position with rate 1.0.
C13_DriftTiers ==
  \A n \in PeerIds :
    (lastSync.peer = n /\ ~lastSync.skipped) =>
      LET d == Abs(lastSync.drift)
      IN  /\ d < DriftThreshold =>
               (sm[n].playbackRate = 100 /\ sm[n].currentTime = lastSync.expected + lastSync.drift)
          /\ (DriftThreshold <= d /\ d < SoftCorrectionThreshold) => NudgedBy(n, SmallNudge)
          /\ (SoftCorrectionThreshold <= d /\ d < HardSeekThreshold) => NudgedBy(n, LargeNudge)
          /\ d >= HardSeekThreshold =>
               (sm[n].playbackRate = 100 /\ sm[n].currentTime = lastSync.expected)


\* C14: a sync sample is originated only by a peer whose leaderId is its own
\* id at the moment of sending: no peer ever originated one while it held
\* another peer, or nobody, leader.
C14_OnlyLeaderEmitsSync ==
  \A n \in PeerIds : ~originated[n].strayed

\* a peer that holds another peer leader was asked to send (by its interval or
\* by a 'ready' envelope) and sent nothing, while the leader did send
C14_Witness ==
  \E n, l \in PeerIds :
    /\ n # l
    /\ sm[n].video /\ leaderId[n] = l
    /\ originated[n].held /\ originated[n].sent = 0
    /\ leaderId[l] = l /\ originated[l].sent > 0


\* C15: when handlePeerBuffering takes the buffering set of a peer from empty
\* to non-empty while its player is playing, the player is paused afterwards
\* and wasPlayingBeforeBuffer is set; when it takes the set back to empty,
\* the player plays afterwards if it was auto-paused when the episode began,
\* and otherwise is left as it was; a player that was paused when the episode
\* began and is paused when it ends stays paused.
C15_BufferingPauseResume ==
  LET l == bufferLog.last
  IN  /\ (l.kind = "entered" /\ ~l.pausedBefore) => l.pausedAfter /\ l.remembered
      /\ (l.kind = "entered" /\ l.pausedBefore) => l.pausedAfter
      /\ (l.kind = "emptied" /\ l.autoPaused) => ~l.pausedAfter
      /\ (l.kind = "emptied" /\ ~l.autoPaused) => l.pausedAfter = l.pausedBefore
      /\ (l.kind = "emptied" /\ l.pausedAtEntry /\ l.pausedBefore) => l.pausedAfter

\* the buffering set of a peer that was auto-paused has just become empty
\* and the player plays again
C15_Witness ==
  /\ bufferLog.last.kind = "emptied"
  /\ bufferLog.last.autoPaused /\ bufferLog.last.pausedBefore
  /\ ~bufferLog.last.pausedAfter


\* C16: a peer that has left the room (cleanup has run) has no timer armed:
\* no reconnection timeout, no sync interval, no vote deadline timer; its
\* peer registry is empty and none of its links is open.
C16_TeardownComplete ==
  \A n \in {1, 2} \ room :
    /\ timers[n] = <<>>
    /\ sm[n].intervals = {}
    /\ voteTimers[n] = <<>>
    /\ peers[n] = <<>>
    /\ \A p \in Pairs : n \in {p[1], p[2]} => ~linkOpen[p]


MediaLoadedInFlight ==
  \E l \in DOMAIN net : \E i \in 1..Len(net[l]) : net[l][i].type = "media_loaded"

\* C17: when only first loads have happened (no change was ever proposed) and
\* every media_loaded envelope has been delivered, all peers of the room
\* hold the same current media: same kind, filename, size and loadedBy.
C17_MediaAgreement ==
  (nextRequestId = 1 /\ ~MediaLoadedInFlight) =>
     \A a, b \in room : mc[a].currentMedia = mc[b].currentMedia


TopCandidates(r) ==
  LET cs == Candidates(1, twinPrio[1], twin[r].peers)
      ids == {cs[i].id : i \in {j \in 1..Len(cs) :
                 \A k \in 1..Len(cs) : cs[k].priority <= cs[j].priority}}
  IN  ids

LeastId(ids) == CHOOSE x \in ids : \A y \in ids : x <= y

GreatestId(ids) == CHOOSE x \in ids : \A y \in ids : y <= x

\* C19: after electLeader has run (registerPeer calls it), leaderId is a
\* candidate of maximum priority among the local peer and the connected
\* peers, and among several of them the one an ordering of the ids selects:
\* one ordering, ascending or descending, accounts for every election.
C19_ElectionRule ==
  \E pick \in {"least", "greatest"} :
    \A r \in TwinIds :
      twin[r].peers # <<>> =>
        twin[r].leaderId = IF pick = "least" THEN LeastId(TopCandidates(r))
                           ELSE GreatestId(TopCandidates(r))


\* the 'close' event this step handled (only handlePeerDisconnect takes one
\* out of closeEv), when it was for the connection a registered peer is held
\* with
ClosedRegistered(ev) ==
  /\ ev \in closeEv /\ ev \notin closeEv'
  /\ FindPeerByConnection(peers[ev.at], ev.peer, ev.connection) # 0

\* C20: when handlePeerDisconnect runs for the connection a registered peer
\* is held with, the record of that peer is still in the registry afterwards,
\* with status reconnecting; a reconnection timeout has been armed for it; no
\* ping interval runs for it; and no peer-left event has fired (the timeouts
\* armed before, which count the peer-left events, are as they were).
C20_LinkFailureDegrades ==
  [][\A n, q \in PeerIds, c \in 1..(MaxCloses + 1) :
       ClosedRegistered([at |-> n, peer |-> q, connection |-> c]) =>
         /\ HasPeer(peers'[n], q)
         /\ peers'[n][PeerIndex(peers'[n], q)].status = "reconnecting"
         /\ Len(peers'[n]) = Len(peers[n])
         /\ timers'[n] = Append(timers[n], timers'[n][Len(timers'[n])])
         /\ timers'[n][Len(timers'[n])].peerId = q
         /\ q \notin pingIntervals'[n]]_vars

\* a registered peer whose link closed and whose 'close' event was handled:
\* its record has status reconnecting, its reconnection timeout is armed and
\* its ping interval is gone
C20_Witness ==
  \E n, q \in PeerIds :
    /\ HasPeer(peers[n], q)
    /\ peers[n][PeerIndex(peers[n], q)].status = "reconnecting"
    /\ \E i \in 1..Len(timers[n]) : timers[n][i].peerId = q
    /\ q \notin pingIntervals[n]
    /\ closeEv = {}


\* C21: once a fresh handshake has restored a peer to connected, no
\* reconnection timeout for that peer is armed any more: a peer whose record
\* has status connected has no armed timeout.
C21_RestorationCancelsTimer ==
  \A n, q \in PeerIds :
    (HasPeer(peers[n], q) /\ peers[n][PeerIndex(peers[n], q)].status = "connected") =>
      \A i \in 1..Len(timers[n]) : timers[n][i].peerId # q


\* the ids of the candidates of maximum priority
MaxPriorityIds(cs) ==
  {cs[i].id : i \in {j \in 1..Len(cs) : \A k \in 1..Len(cs) : cs[k].priority <= cs[j].priority}}

\* this step is the reconnection timeout of peer q firing at peer n and
\* removing q while n records q as leader
LeaderExpired(n, q) ==
  /\ timers[n] # <<>>
  /\ Head(timers[n]).peerId = q
  /\ Len(timers'[n]) = Len(timers[n]) - 1
  /\ HasPeer(peers[n], q)
  /\ ~HasPeer(peers'[n], q)
  /\ leaderId[n] = q

\* C22: when the reconnection timeout of the peer recorded as leader fires and
\* removes it, the election is re-run: afterwards leaderId no longer names the
\* removed peer but a candidate of maximum priority among the local peer and
\* the peers still connected, the leader has changed (the leadership-changed
\* callback runs) and every connected peer is sent the leader_election result.
C22_LeaderFailover ==
  [][\A n, q \in PeerIds :
       LeaderExpired(n, q) =>
         /\ leaderId'[n] # q
         /\ leaderId'[n] # leaderId[n]
         /\ leaderId'[n] \in MaxPriorityIds(Candidates(n, localPriority[n], peers'[n]))
         /\ \A t \in BroadcastTargets(n, peers'[n]) :
              /\ net'[<<n, t>>] # <<>>
              /\ net'[<<n, t>>][Len(net'[<<n, t>>])] =
                   Envelope("leader_election", n, leaderId'[n], 0)]_vars

\* a peer whose leader was removed by the timeout has elected another peer
\* that is still connected, and its announcement is on the way to that peer
C22_Witness ==
  \E n \in PeerIds :
    /\ lastExpiry[n].removed
    /\ ~HasPeer(peers[n], lastExpiry[n].peerId)
    /\ leaderId[n] \notin {n, lastExpiry[n].peerId}
    /\ HasPeer(peers[n], leaderId[n])
    /\ peers[n][PeerIndex(peers[n], leaderId[n])].status = "connected"
    /\ \E i \in 1..Len(net[<<n, leaderId[n]>>]) :
         net[<<n, leaderId[n]>>][i] = Envelope("leader_election", n, leaderId[n], 0)


MediaTypes == {"media_loaded", "file_uploaded", "media_change_request", "vote_response"}

\* this step is peer r taking the media envelope m from its link with s
MediaReceived(r, s, m) ==
  /\ net[<<s, r>>] # <<>>
  /\ m = Head(net[<<s, r>>])
  /\ m.type \in MediaTypes
  /\ net'[<<s, r>>] = Tail(net[<<s, r>>])

\* C23: a peer that receives a media_loaded, file_uploaded,
\* media_change_request or vote_response envelope passes it on to every
\* connected peer other than the original sender.
C23_MediaEnvelopesRelay ==
  [][\A r, s \in PeerIds :
       (r # s /\ net[<<s, r>>] # <<>> /\ MediaReceived(r, s, Head(net[<<s, r>>]))) =>
         \A t \in BroadcastTargets(r, peers[r]) \ {Head(net[<<s, r>>]).senderId} :
           /\ net'[<<r, t>>] # <<>>
           /\ net'[<<r, t>>][Len(net'[<<r, t>>])] = Head(net[<<s, r>>])]_vars


\* this step finalizes the VoteRequest of peer n before its deadline: the
\* record is destroyed by a vote (submitVote or a vote_response), not by the
\* timeout callback, which neither sends nor receives anything
FinalizedEarly(n) ==
  /\ mc[n].activeVoteRequest # NoVoteRequest
  /\ mc'[n].activeVoteRequest = NoVoteRequest
  /\ (net' # net \/ budget' # budget)

\* C24: a peer finalizes a VoteRequest before its deadline only if a vote is
\* recorded for itself and for every peer it holds as connected.
C24_EarlyFinalizeNeedsAllVotes ==
  [][\A n \in PeerIds :
       FinalizedEarly(n) =>
         ({n} \cup ConnectedIds(peers[n])) \subseteq DOMAIN finalized'[n].votes]_vars


\* C25 (its safety half): the VoteRequest outstanding at a peer leaves the
\* peer only by finalizeVote, which reports the vote result for that very
\* request; it is never destroyed in another way.
C25_VoteEndsByFinalize ==
  [][\A n \in PeerIds :
       (/\ mc[n].activeVoteRequest # NoVoteRequest
        /\ mc'[n].activeVoteRequest.requestId # mc[n].activeVoteRequest.requestId)
       => (/\ finalized'[n] # finalized[n]
           /\ finalized'[n].requestId = mc[n].activeVoteRequest.requestId)]_vars


\* C26: when finalizeVote accepts a VoteRequest the listeners get the
\* accepted result and the media-change event, the current media is the
\* proposed one, and for a local file the new readiness map has exactly one
\* ready entry, that of the peer that loaded the file (loadedBy); for a
\* torrent media-ready fires at once.
C26_AcceptedChange ==
  \A n \in PeerIds :
    (finalized[n].requestId # 0 /\ finalized[n].accepted) =>
      /\ {"accepted", "media-change"} \subseteq finalized[n].events
      /\ finalized[n].media.type = "local" =>
           \A q \in DOMAIN finalized[n].pendingAfter :
             finalized[n].pendingAfter[q].hasFile <=> (q = finalized[n].media.loadedBy)
      /\ finalized[n].media.type # "local" => "media-ready" \in finalized[n].events


\* C27: a peer without current media has no outstanding VoteRequest and no
\* file readiness entry.
C27_NothingWithoutMedia ==
  \A n \in PeerIds :
    mc[n].currentMedia = NoMedia =>
      /\ mc[n].activeVoteRequest = NoVoteRequest
      /\ mc[n].pendingFileUploads = <<>>


\* this step is peer r, whose SyncManager is in place, handling the envelope
\* at the head of its link with s, and its leadership-changed listener is
\* called with leader
LeadershipEvent(r, s, leader) ==
  /\ net[<<s, r>>] # <<>>
  /\ Head(net[<<s, r>>]).type \in {"user_info", "leader_election"}
  /\ net'[<<s, r>>] = Tail(net[<<s, r>>])
  /\ linkOpen' = linkOpen
  /\ sm[r].constructed
  /\ leader # Null
  /\ leader = LeaderAnnounced(r, s, Head(net[<<s, r>>]))

\* C28: after a leadership-changed event that names the local peer its sync
\* loop is armed, and after one that names another peer no sync interval of
\* the local peer remains armed.
C28_SyncLoopHandoff ==
  [][\A r, s, leader \in PeerIds :
       (r # s /\ LeadershipEvent(r, s, leader)) =>
         IF leader = r THEN sm'[r].syncInterval \in sm'[r].intervals
         ELSE sm'[r].intervals = {}]_vars


\* this step is peer r taking unparsable data from its link with s
DropsUnparsable(r, s) ==
  /\ net[<<s, r>>] # <<>>
  /\ Head(net[<<s, r>>]) = Unparsable
  /\ garbled[<<s, r>>] = "none"
  /\ garbled'[<<s, r>>] = "dropped"

\* C29: receiving unparsable data on a link changes neither the registry nor
\* the leader nor any timer of the peer, raises no event and sends nothing;
\* the link stays open with the envelopes that follow still queued, so that
\* they are handled afterwards.
C29_MalformedDropped ==
  [][\A r, s \in PeerIds :
       (r # s /\ DropsUnparsable(r, s)) =>
         /\ peers' = peers
         /\ leaderId' = leaderId
         /\ timers' = timers
         /\ pingIntervals' = pingIntervals
         /\ voteTimers' = voteTimers
         /\ sm' = sm
         /\ mc' = mc
         /\ emitted' = emitted
         /\ closeEv' = closeEv
         /\ linkOpen' = linkOpen
         /\ net' = [net EXCEPT ![<<s, r>>] = Tail(@)]]_vars

\* a peer that dropped unparsable data of a link has handled a later
\* envelope of that link and holds the sender as connected
C29_Witness ==
  \E r, s \in PeerIds :
    /\ r # s
    /\ garbled[<<s, r>>] = "resumed"
    /\ HasPeer(peers[r], s)
    /\ peers[r][PeerIndex(peers[r], s)].status = "connected"


\* this step is a broadcast of peer n while it holds peer q as connected over
\* a connection that is destroyed
BroadcastsPast(n, q) ==
  /\ sends = 0
  /\ sends' > 0
  /\ \E t \in PeerIds \ {n} : Len(net'[<<n, t>>]) > Len(net[<<n, t>>])
  /\ HasPeer(peers[n], q)
  /\ peers[n][PeerIndex(peers[n], q)].status = "connected"
  /\ ~LinkAlive(n, q, peers[n][PeerIndex(peers[n], q)].connection)

\* C30: a broadcast that meets a registered peer whose link is destroyed
\* still reaches the other peers, and the peer of the destroyed link is put
\* into the status reconnecting with its reconnection timeout armed.
C30_SendToDestroyedLink ==
  [][\A n, q \in PeerIds :
       (n # q /\ BroadcastsPast(n, q)) =>
         /\ HasPeer(peers'[n], q)
         /\ peers'[n][PeerIndex(peers'[n], q)].status = "reconnecting"
         /\ \E i \in 1..Len(timers'[n]) : timers'[n][i].peerId = q]_vars


\* this step is peer r taking a sync sample from its link with s whose
\* sender has no record in the registry of r
FromStranger(r, s) ==
  /\ net[<<s, r>>] # <<>>
  /\ Head(net[<<s, r>>]).type = "sync"
  /\ ~HasPeer(peers[r], Head(net[<<s, r>>]).senderId)
  /\ net'[<<s, r>>] = Tail(net[<<s, r>>])

\* C31: a sync sample from a sender that has no record in the registry is
\* ignored: the SyncManager does not get it, and it is not relayed.
C31_StrangerIgnored ==
  [][\A r, s \in PeerIds :
       (r # s /\ FromStranger(r, s)) =>
         /\ sm' = sm
         /\ net' = [net EXCEPT ![<<s, r>>] = Tail(@)]]_vars


\* C32: every registry record with status connected has a running ping
\* interval, and a ping interval runs only for peers of the registry.
C32_HeartbeatForConnected ==
  \A n, q \in PeerIds :
    /\ (HasPeer(peers[n], q) /\ peers[n][PeerIndex(peers[n], q)].status = "connected")
         => q \in pingIntervals[n]
    /\ q \in pingIntervals[n] => HasPeer(peers[n], q)


\* C33: while local media is current, the FileReadiness map of a peer has
\* entries for the peer itself and for the peers of its registry only.
C33_ReadinessFollowsMembership ==
  \A n \in PeerIds :
    (mc[n].currentMedia # NoMedia /\ mc[n].currentMedia.type = "local")
      => DOMAIN mc[n].pendingFileUploads
           \subseteq ({n} \cup {peers[n][i].id : i \in DOMAIN peers[n]})


HandshakeInFlight ==
  \E l \in Links : \E i \in DOMAIN net[l] : net[l][i].type = "user_info"

\* C34: the exchange of user_info envelopes ends: from some point on no
\* user_info envelope is in flight on any link.
C34_HandshakeTerminates == <>[](~HandshakeInFlight)


\* C35: a media_change_request envelope taken from a link by a peer that
\* holds no VoteRequest reaches the handler of its MediaController, which
\* records the request, whether or not the peer has constructed its
\* SyncManager.
C35_MediaControllerReceives ==
  [][\A r, s \in PeerIds :
       (/\ r # s
        /\ net[<<s, r>>] # <<>>
        /\ Head(net[<<s, r>>]).type = "media_change_request"
        /\ mc[r].activeVoteRequest = NoVoteRequest
        /\ net'[<<s, r>>] = Tail(net[<<s, r>>]))
         => mc'[r].activeVoteRequest.requestId = Head(net[<<s, r>>]).requestId]_vars


\* C36: a vote timeout that finalizes a VoteRequest is the timeout armed for
\* that request.
C36_TimerFinalizesOwnRequest ==
  [][\A n \in PeerIds :
       (/\ voteTimers[n] # <<>>
        /\ net' = net
        /\ finalized'[n] # finalized[n])
         => finalized'[n].requestId = Head(voteTimers[n])]_vars


\* C37: at a peer whose current local media was loaded by another peer, the
\* peer's own FileReadiness entry is false unless the peer itself confirmed
\* the file with the filename and size of that media.
C37_ReceiverNotReadyBeforeUpload ==
  \A n \in PeerIds :
    (/\ mc[n].currentMedia # NoMedia
     /\ mc[n].currentMedia.type = "local"
     /\ mc[n].currentMedia.loadedBy # n
     /\ n \in DOMAIN mc[n].pendingFileUploads
     /\ mc[n].pendingFileUploads[n].hasFile)
      => /\ lastConfirm[n].peer = n
         /\ lastConfirm[n].sameName /\ lastConfirm[n].sameSize


\* C38: when a peer handling an envelope changes its leaderId, its
\* leadership-changed listener is called with the new value.
C38_NoSilentLeaderChange ==
  [][\A r, s \in PeerIds :
       (/\ r # s
        /\ net[<<s, r>>] # <<>>
        /\ net'[<<s, r>>] = Tail(net[<<s, r>>])
        /\ linkOpen' = linkOpen
        /\ leaderId'[r] # leaderId[r])
         => LeaderAnnounced(r, s, Head(net[<<s, r>>])) = leaderId'[r]]_vars


\* C39: a reconnection timeout that removes a peer from the registry is the
\* one armed at the most recent close of that peer's link: no timeout armed
\* later for the same peer is still pending.
C39_RemovedByLatestTimer ==
  [][\A n \in PeerIds :
       (/\ timers[n] # <<>>
        /\ Len(timers'[n]) = Len(timers[n]) - 1
        /\ HasPeer(peers[n], Head(timers[n]).peerId)
        /\ ~HasPeer(peers'[n], Head(timers[n]).peerId))
         => \A i \in 2..Len(timers[n]) : timers[n][i].peerId # Head(timers[n]).peerId]_vars


\* C40: the buffering set of a peer names peers of its registry only (a peer
\* removed from the room is removed from the set), so that a player that was
\* auto-paused is not held paused by a peer that has left.
C40_DepartedNotBuffering ==
  \A n, q \in PeerIds :
    q \in sm[n].peersBuffering => HasPeer(peers[n], q)

====
